---------------------------- MODULE Spec2Model ----------------------------
(***************************************************************************)
(* Event metrics store of the door-access controller: the action-log line  *)
(* parser, the ingestion of log files into monthly SQLite shards, and the  *)
(* cross-shard range query (lib/metrics_storage.py and its callers).       *)
(*                                                                         *)
(* Text is modelled as sequences of one-character strings, so that the     *)
(* parser works on what the logger wrote.  A log file is a sequence of     *)
(* line identifiers; Text gives the characters of each line.  The files    *)
(* are the ones the program writes itself: UTF-8, "\n" line ends.          *)
(***************************************************************************)
EXTENDS Integers, Sequences, FiniteSets, TLC

(***************************************************************************)
(* Bounds of the model.                                                    *)
(***************************************************************************)
\* Longest action log file, in lines.
MaxLines == 2

\* The months the run over the months lasts.
MaxMonths == 11

\* LOG_RETENTION_DAYS of the configuration.
LOG_RETENTION_DAYS == 7

\* The most databases a SQLite connection attaches (SQLITE_MAX_ATTACHED as
\* the library is built by default).
MaxAttached == 10

(***************************************************************************)
(* Characters and strings.                                                 *)
(***************************************************************************)
\* Python's None where a string is expected: no string of characters equals it.
None == <<"None">>

Digits == <<"0","1","2","3","4","5","6","7","8","9">>

DigitChars == {Digits[i] : i \in 1..10}

UpperChars ==
  {"A","B","C","D","E","F","G","H","I","J","K","L","M",
   "N","O","P","Q","R","S","T","U","V","W","X","Y","Z"}

LowerChars ==
  {"a","b","c","d","e","f","g","h","i","j","k","l","m",
   "n","o","p","q","r","s","t","u","v","w","x","y","z"}

\* str.lower() on the characters used.
LowerOf(c) ==
  CASE c = "A" -> "a" [] c = "B" -> "b" [] c = "C" -> "c" [] c = "D" -> "d"
    [] c = "E" -> "e" [] c = "F" -> "f" [] c = "G" -> "g" [] c = "H" -> "h"
    [] c = "I" -> "i" [] c = "J" -> "j" [] c = "K" -> "k" [] c = "L" -> "l"
    [] c = "M" -> "m" [] c = "N" -> "n" [] c = "O" -> "o" [] c = "P" -> "p"
    [] c = "Q" -> "q" [] c = "R" -> "r" [] c = "S" -> "s" [] c = "T" -> "t"
    [] c = "U" -> "u" [] c = "V" -> "v" [] c = "W" -> "w" [] c = "X" -> "x"
    [] c = "Y" -> "y" [] c = "Z" -> "z" [] OTHER -> c

Lower(s) == [i \in 1..Len(s) |-> LowerOf(s[i])]

\* Whitespace as str.strip() and the regex class \s see it.
IsSpace(c) == c \in {" ", "\n", "\t", "\r"}

\* The regex class \w.
IsWord(c) == c \in DigitChars \cup UpperChars \cup LowerChars \cup {"_"}

\* s[i..] and s[..j].
From(s, i) == SubSeq(s, i, Len(s))

Upto(s, j) == SubSeq(s, 1, j)

\* The positions where sub occurs in s.
Occurrences(s, sub) ==
  {i \in 1..(Len(s) - Len(sub) + 1) : SubSeq(s, i, i + Len(sub) - 1) = sub}

\* sub in s
Contains(s, sub) == Occurrences(s, sub) # {}

Min(S) == CHOOSE x \in S : \A y \in S : x <= y

Max(S) == CHOOSE x \in S : \A y \in S : x >= y

\* str.strip()
Strip(s) ==
  LET keep == {i \in 1..Len(s) : ~IsSpace(s[i])}
  IN  IF keep = {} THEN <<>> ELSE SubSeq(s, Min(keep), Max(keep))

\* str.strip("_")
StripUnderscore(s) ==
  LET keep == {i \in 1..Len(s) : s[i] # "_"}
  IN  IF keep = {} THEN <<>> ELSE SubSeq(s, Min(keep), Max(keep))

\* s.split(sep, 1) where sep occurs in s: the text before and after the
\* first occurrence.
SplitFirst(s, sep) ==
  LET i == Min(Occurrences(s, sep))
  IN  <<Upto(s, i - 1), From(s, i + Len(sep))>>

\* s.rsplit(sep, 1) where sep occurs in s: the text before and after the
\* last occurrence.
SplitLast(s, sep) ==
  LET i == Max(Occurrences(s, sep))
  IN  <<Upto(s, i - 1), From(s, i + Len(sep))>>

\* re.sub(r"\(.*\)", "", s): the greedy match runs from the first "(" to
\* the last ")" after it, and nothing is left to match after that.
RemoveParenthetical(s) ==
  LET opens  == {i \in 1..Len(s) : s[i] = "("}
      closes == {i \in 1..Len(s) : s[i] = ")"}
  IN  IF opens = {} \/ closes = {} \/ Max(closes) < Min(opens)
      THEN s
      ELSE Upto(s, Min(opens) - 1) \o From(s, Max(closes) + 1)

\* re.sub(cls+, rep, s) for a character class: every maximal run of class
\* characters becomes rep.
RECURSIVE ReplaceRuns(_, _, _, _)
ReplaceRuns(s, InClass(_), rep, inRun) ==
  IF s = <<>> THEN <<>>
  ELSE IF InClass(Head(s))
       THEN (IF inRun THEN <<>> ELSE rep)
            \o ReplaceRuns(Tail(s), InClass, rep, TRUE)
       ELSE <<Head(s)>> \o ReplaceRuns(Tail(s), InClass, rep, FALSE)

NotWord(c) == ~IsWord(c)

\* Two decimal digits, four decimal digits.
Fmt2(n) == <<Digits[((n \div 10) % 10) + 1], Digits[(n % 10) + 1]>>

Fmt4(n) == Fmt2(n \div 100) \o Fmt2(n % 100)

DigitValue(c) == CHOOSE v \in 0..9 : Digits[v + 1] = c

RECURSIVE ToInt(_)
ToInt(s) ==
  IF s = <<>> THEN 0 ELSE 10 * ToInt(Upto(s, Len(s) - 1)) + DigitValue(s[Len(s)])

AllDigits(s) == \A i \in 1..Len(s) : s[i] \in DigitChars

(***************************************************************************)
(* Calendar.  A timestamp is <<year, month, day, hour, minute, second>>,   *)
(* the six numbers of a "YYYY-MM-DD HH:MM:SS" string; the order of the     *)
(* tuples is the order of the strings.                                     *)
(***************************************************************************)
IsLeap(y) == (y % 4 = 0 /\ y % 100 # 0) \/ y % 400 = 0

DaysInMonth(y, m) ==
  IF m = 2 THEN (IF IsLeap(y) THEN 29 ELSE 28)
  ELSE IF m \in {4, 6, 9, 11} THEN 30 ELSE 31

\* datetime.strptime(ts, "%Y-%m-%d %H:%M:%S") succeeds.
ValidTs(ts) ==
  /\ ts[1] >= 1
  /\ ts[2] \in 1..12
  /\ ts[3] \in 1..DaysInMonth(ts[1], ts[2])
  /\ ts[4] \in 0..23
  /\ ts[5] \in 0..59
  /\ ts[6] \in 0..59

RECURSIVE TupleLess(_, _)
TupleLess(a, b) ==
  IF a = <<>> \/ b = <<>> THEN a = <<>> /\ b # <<>>
  ELSE Head(a) < Head(b) \/ (Head(a) = Head(b) /\ TupleLess(Tail(a), Tail(b)))

TupleLeq(a, b) == a = b \/ TupleLess(a, b)

\* "%Y-%m-%d %H:%M:%S"
FormatTs(ts) ==
  Fmt4(ts[1]) \o <<"-">> \o Fmt2(ts[2]) \o <<"-">> \o Fmt2(ts[3]) \o <<" ">>
  \o Fmt2(ts[4]) \o <<":">> \o Fmt2(ts[5]) \o <<":">> \o Fmt2(ts[6])

\* The numbers of a string of the shape \d{4}-\d{2}-\d{2} \d{2}:\d{2}:\d{2}.
ReadTs(s) ==
  <<ToInt(SubSeq(s, 1, 4)), ToInt(SubSeq(s, 6, 7)), ToInt(SubSeq(s, 9, 10)),
    ToInt(SubSeq(s, 12, 13)), ToInt(SubSeq(s, 15, 16)), ToInt(SubSeq(s, 18, 19))>>

_month_key_for_datetime(ts) == <<ts[1], ts[2]>>

\* date.toordinal(): the days from 1 January of year 1, that day being 1.
DaysBeforeYear(y) ==
  365 * (y - 1) + ((y - 1) \div 4) - ((y - 1) \div 100) + ((y - 1) \div 400)

RECURSIVE DaysBeforeMonth(_, _)
DaysBeforeMonth(y, m) ==
  IF m = 1 THEN 0 ELSE DaysBeforeMonth(y, m - 1) + DaysInMonth(y, m - 1)

Ordinal(d) == DaysBeforeYear(d[1]) + DaysBeforeMonth(d[1], d[2]) + d[3]


(***************************************************************************)
(* Line parser and normalizer.                                             *)
(***************************************************************************)
SEP == <<" ","-"," ">>

_BADGE_PART == <<" ","-"," ","B","a","d","g","e",":"," ">>

_STATUS_PART == <<" ","-"," ","S","t","a","t","u","s",":"," ">>

\* Python's None where a parsed event is expected.
NoneEvent == [none |-> TRUE]

\* The call does not return: it raises ValueError.
ValueError == [raises |-> "ValueError"]

normalize_status(status) ==
  IF status = None THEN <<"u","n","k","n","o","w","n">>
  ELSE LET s == Strip(status)
       IN  IF s # <<>> THEN Lower(s) ELSE <<"u","n","k","n","o","w","n">>

normalize_event_type(raw_event) ==
  IF raw_event = None THEN <<"u","n","k","n","o","w","n">>
  ELSE
    LET et == ReplaceRuns(Strip(RemoveParenthetical(Lower(raw_event))),
                          IsSpace, <<" ">>, FALSE)
        key == StripUnderscore(ReplaceRuns(et, NotWord, <<"_">>, FALSE))
    IN  IF et = <<>> THEN <<"u","n","k","n","o","w","n">>
        ELSE IF Contains(et, <<"m","a","n","u","a","l"," ","l","o","c","k">>)
          THEN <<"m","a","n","u","a","l","_","l","o","c","k">>
        ELSE IF Contains(et, <<"m","a","n","u","a","l"," ","u","n","l","o","c","k">>)
          THEN <<"m","a","n","u","a","l","_","u","n","l","o","c","k">>
        ELSE IF Contains(et, <<"s","c","a","n">>)
                \/ Contains(et, <<"b","a","d","g","e">>)
          THEN <<"s","c","a","n">>
        ELSE IF Contains(et, <<"o","p","e","n">>)
                \/ Contains(et, <<"u","n","l","o","c","k","e","d">>)
          THEN <<"o","p","e","n">>
        ELSE IF Contains(et, <<"c","l","o","s","e">>)
                \/ Contains(et, <<"c","l","o","s","e","d">>)
                \/ Contains(et, <<"l","o","c","k","e","d">>)
          THEN <<"c","l","o","s","e">>
        ELSE IF key # <<>> THEN key ELSE et

_parse_action_message(message) ==
  LET hasBadge  == Contains(message, _BADGE_PART)
      hasStatus == Contains(message, _STATUS_PART)
      right     == SplitFirst(message, _BADGE_PART)[2]
      raw_event ==
        IF hasBadge /\ hasStatus
        THEN Strip(SplitFirst(message, _BADGE_PART)[1])
        ELSE Strip(SplitLast(message, _STATUS_PART)[1])
      badge_part == Strip(SplitLast(right, _STATUS_PART)[1])
      status_part ==
        IF hasBadge /\ hasStatus
        THEN SplitLast(right, _STATUS_PART)[2]
        ELSE SplitLast(message, _STATUS_PART)[2]
  IN  IF ~hasStatus THEN NoneEvent
      \* right.rsplit(_STATUS_PART, 1) is one piece where two are unpacked
      ELSE IF hasBadge /\ ~Contains(right, _STATUS_PART) THEN ValueError
      ELSE IF raw_event = <<>> THEN NoneEvent
      ELSE [none       |-> FALSE,
            event_type |-> normalize_event_type(raw_event),
            badge_id   |-> IF hasBadge /\ badge_part # <<>>
                           THEN badge_part ELSE None,
            status     |-> normalize_status(status_part)]

\* _ACTION_LINE_RE.match(raw): the groups ts and message, or no match.  The
\* producer [^-]+ ends at the first hyphen after it and the level [A-Z]+ at
\* the first character that is no capital, so the match is unique.
_ACTION_LINE_RE(raw) ==
  LET n == Len(raw)
      shape ==
        /\ n >= 22
        /\ AllDigits(SubSeq(raw, 1, 4))   /\ raw[5] = "-"
        /\ AllDigits(SubSeq(raw, 6, 7))   /\ raw[8] = "-"
        /\ AllDigits(SubSeq(raw, 9, 10))  /\ raw[11] = " "
        /\ AllDigits(SubSeq(raw, 12, 13)) /\ raw[14] = ":"
        /\ AllDigits(SubSeq(raw, 15, 16)) /\ raw[17] = ":"
        /\ AllDigits(SubSeq(raw, 18, 19))
        /\ SubSeq(raw, 20, 22) = SEP
      hyphens == {i \in 23..n : raw[i] = "-"}
      h == Min(hyphens)
      lower == {i \in (h + 2)..n : raw[i] \notin UpperChars}
      k == IF lower = {} THEN n + 1 ELSE Min(lower)
  IN  IF ~shape \/ hyphens = {} THEN [matched |-> FALSE]
      ELSE IF ~(h >= 25 /\ raw[h - 1] = " " /\ h + 1 <= n /\ raw[h + 1] = " ")
        THEN [matched |-> FALSE]
      ELSE IF ~(k > h + 2 /\ k + 2 <= n /\ SubSeq(raw, k, k + 2) = SEP)
        THEN [matched |-> FALSE]
      ELSE [matched |-> TRUE, ts |-> SubSeq(raw, 1, 19),
            message |-> From(raw, k + 3)]

parse_action_log_line(line) ==
  LET raw == Strip(line)
      match == _ACTION_LINE_RE(raw)
      parsed == _parse_action_message(match.message)
  IN  IF raw = <<>> THEN NoneEvent
      ELSE IF ~match.matched THEN NoneEvent
      ELSE IF parsed = ValueError THEN ValueError
      ELSE IF parsed = NoneEvent THEN NoneEvent
      ELSE [none       |-> FALSE,
            event_type |-> parsed.event_type,
            badge_id   |-> parsed.badge_id,
            status     |-> parsed.status,
            ts         |-> ReadTs(match.ts),
            raw_message |-> raw]

(***************************************************************************)
(* The action logger: what record_action and the handler's formatter write.*)
(***************************************************************************)
\* record_action writing the status before the badge.
MessageBadgeLast(action, badge_id, status) ==
  IF badge_id # None /\ badge_id # <<>>
  THEN action \o _STATUS_PART \o status \o _BADGE_PART \o badge_id
  ELSE action \o _STATUS_PART \o status

\* record_action's message.
ActionMessage(action, badge_id, status) ==
  IF badge_id # None /\ badge_id # <<>>
  THEN action \o _BADGE_PART \o badge_id \o _STATUS_PART \o status
  ELSE action \o _STATUS_PART \o status

\* record_action's severity.
ActionLevel(status) ==
  IF Lower(status) \in {<<"s","u","c","c","e","s","s">>, <<"g","r","a","n","t","e","d">>}
  THEN <<"I","N","F","O">>
  ELSE IF Lower(status) \in {<<"d","e","n","i","e","d">>, <<"r","e","j","e","c","t","e","d">>}
  THEN <<"W","A","R","N","I","N","G">>
  ELSE <<"E","R","R","O","R">>

\* '%(asctime)s - %(name)s - %(levelname)s - %(message)s' and emit's "\n".
FormatRecord(ts, name, level, message) ==
  FormatTs(ts) \o SEP \o name \o SEP \o level \o SEP \o message \o <<"\n">>

ActionLoggerName == <<"d","o","o","r","_","a","c","t","i","o","n">>

\* The line record_action(action, badge_id, status) leaves in the action log
\* at time ts.
ActionLine(ts, action, badge_id, status) ==
  FormatRecord(ts, ActionLoggerName, ActionLevel(status),
               ActionMessage(action, badge_id, status))

(***************************************************************************)
(* The lines a log file of the model can hold.  A line is named by the     *)
(* action that wrote it and the time it carries; Text spells it out.       *)
(***************************************************************************)
Line(action, ts) == [action |-> action, ts |-> ts]

scanJan == Line("scan", <<2026, 1, 31, 23, 59, 59>>)

lockJan == Line("lock", <<2026, 1, 15, 8, 0, 0>>)

openFeb == Line("open", <<2026, 2, 1, 0, 0, 0>>)

\* a line of the log shape whose date is no calendar date (30 February)
closeBadDate == Line("close", <<2026, 2, 30, 10, 0, 0>>)

\* free text, as in the repository's tests
comment == Line("comment", <<0, 0, 0, 0, 0, 0>>)

\* The first day of the run over the months, and the day of its k-th month.
FirstDay == <<2026, 1, 2>>

MonthIndex(d) == (d[1] - FirstDay[1]) * 12 + d[2] - FirstDay[2] + 1

DayAt(k) ==
  <<FirstDay[1] + ((FirstDay[2] + k - 2) \div 12),
    ((FirstDay[2] + k - 2) % 12) + 1,
    FirstDay[3]>>

\* What is logged at noon of a day: a badge scan in the odd months, a manual
\* lock in the even ones.
LineOn(d) ==
  Line(IF d[2] % 2 = 1 THEN "scan" ELSE "lock", <<d[1], d[2], d[3], 12, 0, 0>>)

Lines ==
  {scanJan, lockJan, openFeb, closeBadDate, comment}
  \cup {LineOn(DayAt(k)) : k \in 1..MaxMonths}

\* The lines the action log of 31 January gets: records stamped with the
\* clock's time, and text that is no record.
LoggedLines == {scanJan, lockJan, openFeb, comment}

Text(l) ==
  CASE l.action = "scan" ->
         ActionLine(l.ts, <<"B","a","d","g","e"," ","S","c","a","n">>,
                    <<"a","b","c">>, <<"G","r","a","n","t","e","d">>)
    [] l.action = "lock" ->
         ActionLine(l.ts, <<"M","a","n","u","a","l"," ","L","o","c","k">>,
                    None, <<"S","u","c","c","e","s","s">>)
    [] l.action = "open" ->
         ActionLine(l.ts,
                    <<"D","o","o","r"," ","O","P","E","N","/","U","N","L","O","C","K","E","D">>,
                    <<"a","b","c">>, <<"S","u","c","c","e","s","s">>)
    [] l.action = "close" ->
         ActionLine(l.ts,
                    <<"D","o","o","r"," ","C","L","O","S","E","D","/","L","O","C","K","E","D">>,
                    None, <<"S","u","c","c","e","s","s">>)
    [] l.action = "comment" ->
         <<"S","o","m","e"," ","c","o","m","m","e","n","t","\n">>

\* parse_action_log_line on each line of the model, computed once.
Parsed == [l \in Lines |-> parse_action_log_line(Text(l))]

(***************************************************************************)
(* State.                                                                  *)
(*                                                                         *)
(* A path is a file of the one log directory, so a path is its own         *)
(* os.path.basename.  A shard is the events table of one monthly database: *)
(* the set of its rows.  A month key is <<year, month>>, a date            *)
(* <<year, month, day>>.                                                   *)
(***************************************************************************)
VARIABLES
  fs,       \* the log directory: path -> the file's lines
  shards,   \* the metrics directory: month key -> rows
  pc,       \* where the running ingest_action_log_file call stands
  call,     \* that call's arguments and locals
  job,      \* the running reload_action_logs call, its locals
  repeat,   \* the file whose last event was a completed ingestion that left it as it was
  qres,     \* what the query of this step returned
  today,    \* date.today()
  threads,  \* where each thread of the program is, when several run
  input,    \* the argument of the pure function under evaluation
  output,   \* what that function returned, once it has
  relay,          \* what gpio.output last set on the relay pin
  _door_is_open,  \* door_control's global door status
  unlock_timer,   \* DoorController.unlock_timer: a timer, or 0 for None
  timers,         \* the threading.Timer objects started so far
  calls,          \* how many calls callers may still make to the controller
  inodes,         \* the files of the log directory: inode -> the file's lines
  dirents,        \* the names of the log directory: path -> inode
  _stream,        \* the inode DailyNamedFileHandler._stream is open on
  ingest          \* the ingest_action_log_file call that runs beside the logger

\* The variables of the store and of its callers.
store == <<fs, shards, pc, call, job, repeat, qres, today, threads>>

\* The variables of the door controller.
door == <<relay, _door_is_open, unlock_timer, timers, calls>>

\* The variables of the log directory as the system keeps it.
disk == <<inodes, dirents, _stream, ingest>>

\* The variables the store and its callers never touch.
others == <<input, output, door, disk>>

vars == <<store, others>>

\* No function is under evaluation.
NoInput == [fn |-> "none"]

NoOutput == [fn |-> "none"]

\* The state of what runs apart from the store, while only the store runs.
Apart ==
  /\ input = NoInput
  /\ output = NoOutput
  /\ relay = "LOW"
  /\ _door_is_open = FALSE
  /\ unlock_timer = 0
  /\ timers = <<>>
  /\ calls = 0
  /\ inodes = <<>>
  /\ dirents = <<>>
  /\ _stream = 0
  /\ ingest = [at |-> "idle"]

\* LOG_FILE is logs/door_controller.txt: its dated logs.
ActionLogOn(d) == [kind |-> "action", date |-> d]

MainLogOn(d) == [kind |-> "main", date |-> d]

ActionLog == ActionLogOn(<<2026, 1, 31>>)

MainLog == MainLogOn(<<2026, 1, 31>>)

\* A dated action log of a day on which nothing was logged: no such file.
MissingLog == ActionLogOn(<<2026, 1, 30>>)

\* The name tempfile.mkstemp picks: one that does not exist.
TmpFile == [kind |-> "tmp", date |-> <<0, 0, 0>>]

NoPath == [kind |-> "none", date |-> <<0, 0, 0>>]

\* A file of the same name in another directory.
Elsewhere(path) ==
  [dir |-> "elsewhere", kind |-> path.kind, date |-> path.date]

\* os.path.basename(path): the name without the directory.  A file of the
\* log directory is written as its name.
basename(path) == [kind |-> path.kind, date |-> path.date]

\* The extension of LOG_FILE.
LogExt == <<".","t","x","t">>

\* _get_dated_log_path(_build_derived_file(LOG_FILE, suffix), date)
DatedName(suffix, date) ==
  <<"d","o","o","r","_","c","o","n","t","r","o","l","l","e","r">> \o suffix
  \o <<"-">> \o Fmt4(date[1]) \o <<"-">> \o Fmt2(date[2]) \o <<"-">>
  \o Fmt2(date[3]) \o LogExt

\* The characters of each file name.
Spelling(path) ==
  CASE path.kind = "action" ->
         DatedName(<<"_","a","c","t","i","o","n">>, path.date)
    [] path.kind = "main" -> DatedName(<<>>, path.date)
    [] path.kind = "tmp" -> <<"t","m","p","k","3","x","9","_","q","2","a">>

\* name.endswith(suffix)
EndsWith(name, suffix) ==
  Len(name) >= Len(suffix) /\ From(name, Len(name) - Len(suffix) + 1) = suffix

NoCall == [active |-> FALSE]

NoJob == [active |-> FALSE]

NoResult == [status |-> "none"]

Exists(path) == path \in DOMAIN fs

\* The directory with file path holding content (created or replaced).
WriteFile(dir, path, content) ==
  [p \in DOMAIN dir \cup {path} |-> IF p = path THEN content ELSE dir[p]]

\* os.remove(path)
RemoveFile(dir, path) == [p \in DOMAIN dir \ {path} |-> dir[p]]

ShardExists(sh, month_key) == month_key \in DOMAIN sh

\* ensure_month_db: the shard file with its table and indices, created
\* empty when missing.
ensure_month_db(sh, month_key) ==
  IF ShardExists(sh, month_key) THEN sh
  ELSE [k \in DOMAIN sh \cup {month_key} |->
          IF k = month_key THEN {} ELSE sh[k]]

\* A step of the one caller that answers no query and on which the day does
\* not change.
Quiet ==
  /\ qres' = NoResult /\ today' = today /\ threads' = threads
  /\ UNCHANGED others

(***************************************************************************)
(* ingest_action_log_file.                                                 *)
(***************************************************************************)
\* The file as the loop over enumerate(fh, start=1) sees it, and
\* parse_action_log_line of each of its lines.
ReadLines(path) == IF Exists(path) THEN fs[path] ELSE <<>>

ParsedLines(content) == [i \in 1..Len(content) |-> Parsed[content[i]]]

\* events_to_insert: the parsed lines, each with the file and its line
\* number (from 1).  raw_message, the stripped line, is written as the
\* name of the line.
RECURSIVE EventsToInsert(_, _, _, _)
EventsToInsert(parsed, content, path, lineno) ==
  IF lineno > Len(content) THEN <<>>
  ELSE (IF parsed[lineno] = NoneEvent THEN <<>>
        ELSE <<[ts |-> parsed[lineno].ts,
                event_type |-> parsed[lineno].event_type,
                badge_id |-> parsed[lineno].badge_id,
                status |-> parsed[lineno].status,
                raw_message |-> content[lineno],
                imported_file |-> basename(path),
                imported_line_number |-> lineno]>>)
       \o EventsToInsert(parsed, content, path, lineno + 1)

\* A loop that keeps no line of the file.
KeepsNothing(parsed, content, lineno) == <<>>

\* kept_lines: the lines that do not parse, in order.
RECURSIVE KeptLines(_, _, _)
KeptLines(parsed, content, lineno) ==
  IF lineno > Len(content) THEN <<>>
  ELSE (IF parsed[lineno] = NoneEvent THEN <<content[lineno]>> ELSE <<>>)
       \o KeptLines(parsed, content, lineno + 1)

\* The event's timestamp passes strptime and so has a month.
HasMonth(ev) == ValidTs(ev.ts)

\* The keys of grouped, in the order the dict got them: the month of each
\* event whose timestamp strptime accepts, by first appearance.
RECURSIVE GroupKeys(_, _)
GroupKeys(events, seen) ==
  IF events = <<>> THEN <<>>
  ELSE IF ~HasMonth(Head(events))
          \/ _month_key_for_datetime(Head(events).ts) \in seen
       THEN GroupKeys(Tail(events), seen)
       ELSE <<_month_key_for_datetime(Head(events).ts)>>
            \o GroupKeys(Tail(events),
                         seen \cup {_month_key_for_datetime(Head(events).ts)})

\* grouped[month_key]: the events of that month, in file order.
InGroup(ev, month_key) ==
  HasMonth(ev) /\ _month_key_for_datetime(ev.ts) = month_key

GroupRows(events, month_key) ==
  SelectSeq(events, LAMBDA ev : InGroup(ev, month_key))

\* A table without the unique index: no row ever stands in the way.
NoConflicts(rows, ev) == FALSE

\* idx_events_imported_file_line: a row of the table has the event's
\* (imported_file, imported_line_number).
Conflicts(rows, ev) ==
  \E r \in rows : /\ r.imported_file = ev.imported_file
                  /\ r.imported_line_number = ev.imported_line_number

\* The row of an event.  The AUTOINCREMENT id is left out: no statement of
\* the program reads it, and the unique index tells the rows apart.
RowOf(ev) ==
  [ts |-> ev.ts, event_type |-> ev.event_type, badge_id |-> ev.badge_id,
   status |-> ev.status, raw_message |-> ev.raw_message,
   imported_file |-> ev.imported_file,
   imported_line_number |-> ev.imported_line_number]

\* INSERT OR REPLACE: the row that holds the event's key gives way to it.
RECURSIVE InsertOrReplace(_, _)
InsertOrReplace(rows, batch) ==
  IF batch = <<>> THEN rows
  ELSE InsertOrReplace(
         {r \in rows : ~(/\ r.imported_file = Head(batch).imported_file
                         /\ r.imported_line_number =
                              Head(batch).imported_line_number)}
         \cup {RowOf(Head(batch))},
         Tail(batch))

\* INSERT OR IGNORE of the events of a batch, one after the other.
RECURSIVE InsertOrIgnore(_, _)
InsertOrIgnore(rows, batch) ==
  IF batch = <<>> THEN rows
  ELSE InsertOrIgnore(IF Conflicts(rows, Head(batch)) THEN rows
                      ELSE rows \cup {RowOf(Head(batch))},
                      Tail(batch))

\* conn.total_changes after the batch less before it: the rows not ignored.
RECURSIVE Changes(_, _)
Changes(rows, batch) ==
  IF batch = <<>> THEN 0
  ELSE IF Conflicts(rows, Head(batch)) THEN Changes(rows, Tail(batch))
  ELSE 1 + Changes(rows \cup {RowOf(Head(batch))}, Tail(batch))

\* conn.commit(): the table with the transaction's rows.
commit(before, pending) == pending

\* A failed transaction whose rows stay.
keep_pending(before, pending) == pending

\* conn.rollback(): the table as it was at BEGIN.
rollback(before, pending) == before

\* One turn of the loop over grouped.items(): ensure_month_db, then the
\* transaction of the month's batch, committed.
InsertGroup(sh, events, month_key) ==
  [ensure_month_db(sh, month_key) EXCEPT ![month_key] =
     commit(@, InsertOrIgnore(@, GroupRows(events, month_key)))]

\* The same turn when the n-th INSERT is the last that works.
InsertGroupFailing(sh, events, month_key, n) ==
  [ensure_month_db(sh, month_key) EXCEPT ![month_key] =
     rollback(@, InsertOrIgnore(@, SubSeq(GroupRows(events, month_key), 1, n)))]

\* The whole loop.
RECURSIVE InsertGroups(_, _, _)
InsertGroups(sh, events, keys) ==
  IF keys = <<>> THEN sh
  ELSE InsertGroups(InsertGroup(sh, events, Head(keys)), events, Tail(keys))

\* The shards after a call that runs to its end on a file of that content.
IngestedEvents(sh, events) == InsertGroups(sh, events, GroupKeys(events, {}))

Ingested(sh, path, content) ==
  IngestedEvents(sh, EventsToInsert(ParsedLines(content), content, path, 1))

\* A temporary "file" that is the log itself: the rewrite done in place.
mkstemp_in_place(path) == path

\* fd, tmp = tempfile.mkstemp(dir=os.path.dirname(path) or '.')
mkstemp(path) == TmpFile

\* The call's first statements: the existence test, the read of the whole
\* file with its parse, and the grouping by month.
Begin(path, delete_file, existed, content, events, kept_lines, keys) ==
  /\ call' = [active |-> TRUE, path |-> path, delete_file |-> delete_file,
              existed |-> existed, content |-> content,
              events |-> events, kept_lines |-> kept_lines,
              todo |-> keys, inserted |-> 0, failed |-> <<>>,
              rewrite_failed |-> FALSE,
              again |-> existed /\ repeat = path,
              fs0 |-> fs, shards0 |-> shards]
  /\ pc' = IF ~existed \/ events = <<>> THEN "returned"
           ELSE IF keys # <<>> THEN "insert"
           ELSE IF delete_file THEN "mkstemp" ELSE "returned"

BeginParsed(path, delete_file, content, events, kept_lines) ==
  Begin(path, delete_file, Exists(path), content, events, kept_lines,
        GroupKeys(events, {}))

BeginRead(path, delete_file, content, parsed) ==
  BeginParsed(path, delete_file, content,
              EventsToInsert(parsed, content, path, 1),
              KeptLines(parsed, content, 1))

StartIngest(path, delete_file) ==
  BeginRead(path, delete_file, ReadLines(path), ParsedLines(ReadLines(path)))

\* A caller of ingest_action_log_file(path, delete_file=...), the default
\* being TRUE.
IngestCall(path, delete_file) ==
  /\ pc = "idle" /\ ~job.active
  /\ StartIngest(path, delete_file)
  /\ Quiet
  /\ UNCHANGED <<fs, shards, job, repeat>>

\* One turn of the loop over grouped: the committed transaction of the
\* month's batch.
InsertBatch ==
  /\ pc = "insert"
  /\ shards' = InsertGroup(shards, call.events, Head(call.todo))
  /\ call' = [call EXCEPT
                !.todo = Tail(call.todo),
                !.inserted = call.inserted
                  + Changes(ensure_month_db(shards, Head(call.todo))[Head(call.todo)],
                            GroupRows(call.events, Head(call.todo)))]
  /\ pc' = IF Tail(call.todo) # <<>> THEN "insert"
           ELSE IF call.delete_file THEN "mkstemp" ELSE "returned"
  /\ Quiet
  /\ UNCHANGED <<fs, job, repeat>>

\* The transaction of the month's batch fails after some of its INSERTs
\* (disk full, database locked): conn.rollback() and raise.
InsertFails ==
  /\ pc = "insert"
  /\ \E n \in 0..Len(GroupRows(call.events, Head(call.todo))) :
       shards' = InsertGroupFailing(shards, call.events, Head(call.todo), n)
  /\ call' = [call EXCEPT !.failed = Head(call.todo)]
  /\ pc' = "raised"
  /\ Quiet
  /\ UNCHANGED <<fs, job, repeat>>

\* delete_file: the empty temporary file beside the log.
Mkstemp ==
  /\ pc = "mkstemp"
  /\ fs' = WriteFile(fs, mkstemp(call.path), <<>>)
  /\ pc' = "write"
  /\ Quiet
  /\ UNCHANGED <<shards, call, job, repeat>>

\* mkstemp stands before the try: its error reaches the caller.
MkstempFails ==
  /\ pc = "mkstemp"
  /\ pc' = "raised"
  /\ Quiet
  /\ UNCHANGED <<fs, shards, call, job, repeat>>

\* outfh.writelines(kept_lines) reaches the disk a line at a time.
WriteLine ==
  /\ pc = "write"
  /\ LET tmp == mkstemp(call.path)
     IN  /\ Len(fs[tmp]) < Len(call.kept_lines)
         /\ fs' = WriteFile(fs, tmp,
                    Append(fs[tmp], call.kept_lines[Len(fs[tmp]) + 1]))
  /\ Quiet
  /\ UNCHANGED <<shards, pc, call, job, repeat>>

\* shutil.move(tmp, path): a rename inside one directory.
Move ==
  /\ pc = "write"
  /\ LET tmp == mkstemp(call.path)
     IN  /\ Len(fs[tmp]) = Len(call.kept_lines)
         /\ fs' = IF tmp = call.path THEN fs
                  ELSE RemoveFile(WriteFile(fs, call.path, fs[tmp]), tmp)
  /\ pc' = "returned"
  /\ Quiet
  /\ UNCHANGED <<shards, call, job, repeat>>

\* The write or the move raises: os.remove(tmp), and the error is dropped.
RewriteFails ==
  /\ pc = "write"
  /\ fs' = RemoveFile(fs, mkstemp(call.path))
  /\ call' = [call EXCEPT !.rewrite_failed = TRUE]
  /\ pc' = "returned"
  /\ Quiet
  /\ UNCHANGED <<shards, job, repeat>>

\* The process dies inside the call.
Crash ==
  /\ pc \in {"insert", "mkstemp", "write"}
  /\ pc' = "crashed"
  /\ Quiet
  /\ UNCHANGED <<fs, shards, call, job, repeat>>

\* The call is over: its caller goes on.  reload_action_logs adds up what
\* a call returned and drops what it raised.
Finish ==
  /\ pc \in {"returned", "raised"}
  /\ pc' = "idle"
  /\ call' = NoCall
  /\ repeat' = IF pc = "returned" /\ call.existed /\ fs = call.fs0
               THEN call.path ELSE NoPath
  /\ job' = IF job.active /\ pc = "returned" /\ call.inserted # 0
            THEN [job EXCEPT !.inserted = job.inserted + call.inserted,
                             !.files_processed = job.files_processed + 1]
            ELSE job
  /\ Quiet
  /\ UNCHANGED <<fs, shards>>

(***************************************************************************)
(* cleanup_old_logs and the action logger's handler.                       *)
(***************************************************************************)
\* file_date < cutoff, for the dated logs the pattern of the loop matches.
IsOld(path, now) ==
  /\ path.kind \in {"action", "main"}
  /\ Ordinal(path.date) < Ordinal(now) - LOG_RETENTION_DAYS

\* The loop over os.listdir(log_dir): an old action log is ingested
\* (delete_file by default) and every old log removed.
RECURSIVE CleanFiles(_, _, _)
CleanFiles(dir, sh, old) ==
  IF old = {} THEN [fs |-> dir, shards |-> sh]
  ELSE LET path == CHOOSE p \in old : TRUE
       IN  CleanFiles(RemoveFile(dir, path),
                      IF path.kind = "action"
                      THEN Ingested(sh, path, dir[path]) ELSE sh,
                      old \ {path})

cleanup_old_logs(dir, sh, now) ==
  CleanFiles(dir, sh, {p \in DOMAIN dir : IsOld(p, now)})

\* DailyNamedFileHandler.emit: on the first record of a day the day's file
\* is opened and the old logs are cleaned up; then the line is written.
\* The handler has opened the day's file when that file exists.
Rolled(dir, sh, now) ==
  IF ActionLogOn(now) \in DOMAIN dir THEN [fs |-> dir, shards |-> sh]
  ELSE cleanup_old_logs(WriteFile(dir, ActionLogOn(now), <<>>), sh, now)

WriteRecord(rolled, path, l) ==
  /\ fs' = WriteFile(rolled.fs, path, Append(rolled.fs[path], l))
  /\ shards' = rolled.shards

emit(l) ==
  /\ pc = "idle" /\ ~job.active
  /\ WriteRecord(Rolled(fs, shards, today), ActionLogOn(today), l)
  /\ repeat' = IF repeat = ActionLogOn(today) THEN NoPath ELSE repeat
  /\ Quiet
  /\ UNCHANGED <<pc, call, job>>

\* A line reaches the action log of the day.
Emit(l) ==
  /\ Len(fs[ActionLogOn(today)]) < MaxLines
  /\ emit(l)

(***************************************************************************)
(* reload_action_logs.                                                     *)
(***************************************************************************)
\* The test of the loop over os.listdir(log_dir).
IsActionLogName(name) ==
  /\ EndsWith(name, LogExt)
  /\ \/ Contains(name, <<"_","a","c","t","i","o","n","-">>)
     \/ EndsWith(name, <<"_","a","c","t","i","o","n">> \o LogExt)

\* The sequences that list each element of S once.
Orderings(S) ==
  {q \in [1..Cardinality(S) -> S] : \A i, j \in DOMAIN q : i # j => q[i] # q[j]}

\* A reload that takes ingest_action_log_file's default.
reload_delete_default == TRUE

\* reload_action_logs passes delete_file=False.
reload_delete_file == FALSE

\* os.listdir(log_dir), in the order the system gives, less the names the
\* loop passes over.
ReloadCall ==
  /\ pc = "idle" /\ ~job.active
  /\ \E todo \in Orderings({p \in DOMAIN fs : IsActionLogName(Spelling(p))}) :
       job' = [active |-> TRUE, todo |-> todo, inserted |-> 0,
               files_processed |-> 0, files_scanned |-> 0, fs0 |-> fs]
  /\ Quiet
  /\ UNCHANGED <<fs, shards, pc, call, repeat>>

\* ingest_action_log_file(path, base_path, delete_file=False) on the next name.
ReloadNext ==
  /\ pc = "idle" /\ job.active /\ job.todo # <<>>
  /\ StartIngest(Head(job.todo), reload_delete_file)
  /\ job' = [job EXCEPT !.todo = Tail(job.todo),
                        !.files_scanned = job.files_scanned + 1]
  /\ Quiet
  /\ UNCHANGED <<fs, shards, repeat>>

ReloadReturn ==
  /\ pc = "idle" /\ job.active /\ job.todo = <<>>
  /\ job' = NoJob
  /\ Quiet
  /\ UNCHANGED <<fs, shards, pc, call, repeat>>

(***************************************************************************)
(* The program after start-up on 31 January: the handlers have opened the  *)
(* day's logs, the main log holds a first record, and no shard exists.     *)
(***************************************************************************)
\* The threads of start.py that log, download badges or serve HTTP, each
\* at rest.
Threads == {"server", "rfid", "refresh"}

Idle ==
  [at |-> "idle", kind |-> "none", todo |-> <<>>, path |-> NoPath,
   delete_file |-> FALSE, events |-> <<>>, kept_lines |-> <<>>,
   raised |-> FALSE]

AllIdle == [t \in Threads |-> Idle]

Init ==
  /\ today = <<2026, 1, 31>>
  /\ fs = WriteFile(WriteFile(<<>>, ActionLog, <<>>), MainLog, <<scanJan>>)
  /\ shards = <<>>
  /\ pc = "idle"
  /\ call = NoCall
  /\ job = NoJob
  /\ repeat = NoPath
  /\ qres = NoResult
  /\ threads = AllIdle
  /\ Apart

Next ==
  \/ \E l \in LoggedLines : Emit(l)
  \/ \E path \in {ActionLog, MissingLog}, delete_file \in BOOLEAN :
       IngestCall(path, delete_file)
  \/ InsertBatch
  \/ InsertFails
  \/ Mkstemp
  \/ MkstempFails
  \/ WriteLine
  \/ Move
  \/ RewriteFails
  \/ Crash
  \/ Finish
  \/ ReloadCall
  \/ ReloadNext
  \/ ReloadReturn

Spec == Init /\ [][Next]_vars

(***************************************************************************)
(* Properties of the ingestion (specification Spec).                       *)
(***************************************************************************)
\* C1: ingesting the same unmodified file twice with delete_file=False
\* inserts its events on the first call (a call on a file of which the
\* store holds no row inserts every event, each into the shard of its
\* month) and inserts exactly zero rows on the second (a call on a file
\* that a completed call has just left as it was returns 0 and leaves every
\* shard's rows as they were).
IdempotentReingest ==
  (pc = "returned" /\ call.existed /\ ~call.delete_file) =>
    /\ call.again => call.inserted = 0 /\ shards = call.shards0
    /\ (\A k \in DOMAIN call.shards0 : \A r \in call.shards0[k] :
          r.imported_file # call.path)
       => /\ call.inserted =
               Cardinality({i \in DOMAIN call.events : ValidTs(call.events[i].ts)})
          /\ \A i \in DOMAIN call.events :
               ValidTs(call.events[i].ts) =>
                 /\ <<call.events[i].ts[1], call.events[i].ts[2]>> \in DOMAIN shards
                 /\ RowOf(call.events[i])
                      \in shards[<<call.events[i].ts[1], call.events[i].ts[2]>>]

\* C1, its case: a second call without truncation on a file whose events
\* are all stored has returned 0.
IdempotentReingestSeen ==
  /\ pc = "returned" /\ call.existed /\ ~call.delete_file /\ call.again
  /\ call.events # <<>>
  /\ call.inserted = 0
  /\ Cardinality({r \in UNION {shards[k] : k \in DOMAIN shards} :
                    r.imported_file = call.path}) = Len(call.events)

\* C2: after any sequence of ingestion runs no two stored rows, in one
\* shard or in two, have the same (imported_file, imported_line_number).
UniqueImportKey ==
  \A k1 \in DOMAIN shards, k2 \in DOMAIN shards :
    \A r1 \in shards[k1], r2 \in shards[k2] :
      (/\ r1.imported_file = r2.imported_file
       /\ r1.imported_line_number = r2.imported_line_number)
      => (k1 = k2 /\ r1 = r2)

\* C3: every event line that a truncating ingestion removes from the file
\* is stored as a row in exactly one shard, the shard of the month of its
\* timestamp.
RemovedEventsStored ==
  (/\ pc = "returned" /\ call.existed /\ call.delete_file
   /\ call.events # <<>> /\ ~call.rewrite_failed) =>
    \A i \in DOMAIN call.events :
      /\ <<call.events[i].ts[1], call.events[i].ts[2]>> \in DOMAIN shards
      /\ \A k \in DOMAIN shards :
           RowOf(call.events[i]) \in shards[k]
             <=> k = <<call.events[i].ts[1], call.events[i].ts[2]>>

\* C4: when the insert transaction into a shard fails, the call raises,
\* that shard shows none of the rows of the failed batch (its rows are
\* those it had before the call), and the log directory, the source file
\* with it, is as it was, with delete_file=True too.
FailedInsertLeavesAll ==
  (call.active /\ call.failed # <<>>) =>
    /\ pc = "raised"
    /\ call.failed \in DOMAIN shards
    /\ shards[call.failed] =
         (IF call.failed \in DOMAIN call.shards0
          THEN call.shards0[call.failed] ELSE {})
    /\ fs = call.fs0
    /\ fs[call.path] = call.content

\* C4, its case: a truncating call has raised on a batch with a row the
\* shard does not hold.
FailedInsertSeen ==
  /\ pc = "raised" /\ call.failed # <<>> /\ call.delete_file
  /\ \E i \in DOMAIN call.events :
       /\ <<call.events[i].ts[1], call.events[i].ts[2]>> = call.failed
       /\ ~ \E r \in shards[call.failed] :
              /\ r.imported_file = call.events[i].imported_file
              /\ r.imported_line_number = call.events[i].imported_line_number

\* C5: at every step of a truncating ingestion, a crash before the rename
\* included, the source file holds its complete original content or
\* exactly the kept lines.
NeverHalfWritten ==
  (call.active /\ call.existed /\ call.delete_file) =>
    /\ call.path \in DOMAIN fs
    /\ fs[call.path] \in {call.content, call.kept_lines}

\* C5, its case: the process has died with the temporary file partly
\* written and the source file whole.
NeverHalfWrittenSeen ==
  /\ pc = "crashed" /\ call.delete_file
  /\ TmpFile \in DOMAIN fs
  /\ fs[TmpFile] # call.kept_lines
  /\ call.kept_lines # call.content
  /\ fs[call.path] = call.content

\* C6 as stated: after a call with delete_file=True on a file with at
\* least one event line the file holds exactly the lines that
\* parse_action_log_line returned None for, in their order.
TruncationKeepsOnlyOtherLines ==
  (pc = "returned" /\ call.existed /\ call.delete_file /\ call.events # <<>>) =>
    fs[call.path] = SelectSeq(call.content, LAMBDA l : Parsed[l] = NoneEvent)

\* C6, amended: the same, unless the write or the rename of the temporary
\* copy failed, in which case the call still returns and the file holds its
\* original content.
TruncationKeepsOtherLinesUnlessRewriteFails ==
  (pc = "returned" /\ call.existed /\ call.delete_file /\ call.events # <<>>) =>
    fs[call.path] =
      (IF call.rewrite_failed THEN call.content
       ELSE SelectSeq(call.content, LAMBDA l : Parsed[l] = NoneEvent))

\* C6, its case: a truncating call has returned from a file of event lines
\* and other lines, the rewrite done.
TruncationSeen ==
  /\ pc = "returned" /\ call.existed /\ call.delete_file
  /\ ~call.rewrite_failed
  /\ call.events # <<>> /\ call.kept_lines # <<>>
  /\ fs[call.path] = call.kept_lines

\* C7: a call with delete_file=False, and reload_action_logs over the log
\* directory, leave every file of the directory as it was, whatever they
\* insert.
NoTruncationLeavesFiles ==
  /\ (call.active /\ ~call.delete_file) => fs = call.fs0
  /\ job.active => fs = job.fs0

\* C7, its case: a reload has inserted events from a file.
NoTruncationSeen ==
  /\ job.active /\ pc = "idle"
  /\ job.inserted > 0
  /\ \E p \in DOMAIN fs : fs[p] # <<>> /\ p.kind = "action"

(***************************************************************************)
(* The cross-shard range query.                                            *)
(*                                                                         *)
(* A ts column holds the 19 characters the line pattern matched, digits in *)
(* fixed places, and the bounds of a query are strftime's output of the    *)
(* same shape: SQLite's comparison of the texts is the comparison of the   *)
(* six numbers in order.                                                   *)
(***************************************************************************)
\* datetime.strptime(ts, "%Y-%m-%d %H:%M:%S").date()
DateOf(ts) == <<ts[1], ts[2], ts[3]>>

\* The loop of month_keys_in_range from cur to final.
RECURSIVE MonthsFrom(_, _)
MonthsFrom(cur, final) ==
  IF TupleLess(final, cur) THEN <<>>
  ELSE <<cur>> \o MonthsFrom(IF cur[2] = 12 THEN <<cur[1] + 1, 1>>
                             ELSE <<cur[1], cur[2] + 1>>,
                             final)

month_keys_in_range(start_date, end_date) ==
  IF TupleLess(end_date, start_date) THEN <<>>
  ELSE MonthsFrom(<<start_date[1], start_date[2]>>,
                  <<end_date[1], end_date[2]>>)

\* Paths that create the shard of every month of the range.
PathsCreatingAll(sh, now_key, months) ==
  [paths  |-> months,
   shards |-> [k \in DOMAIN sh \cup {months[i] : i \in DOMAIN months} |->
                 IF k \in DOMAIN sh THEN sh[k] ELSE {}]]

\* The shards of the range that exist, the current month's created when
\* missing: the paths and the metrics directory afterwards.
PathsAmong(sh, now_key, months) ==
  [paths  |-> SelectSeq(months, LAMBDA k : ShardExists(sh, k) \/ k = now_key),
   shards |-> IF \E i \in DOMAIN months : months[i] = now_key
              THEN ensure_month_db(sh, now_key) ELSE sh]

db_paths_in_range(sh, now, start_date, end_date) ==
  PathsAmong(sh, <<now[1], now[2]>>, month_keys_in_range(start_date, end_date))

\* ATTACH DATABASE ? AS m<idx> for each path: the statement raises once
\* the connection holds the most it attaches.
attach_databases(db_paths) ==
  IF Len(db_paths) > MaxAttached
  THEN [raised |-> TRUE, aliases |-> [i \in 1..MaxAttached |-> i - 1]]
  ELSE [raised |-> FALSE, aliases |-> [i \in 1..Len(db_paths) |-> i - 1]]

\* The elements of a sequence.
Elements(q) == {q[i] : i \in DOMAIN q}

\* WHERE ts >= ? AND ts <= ? [AND event_type IN (...)]
Where(r, start_ts, end_ts, event_types) ==
  /\ TupleLeq(start_ts, r.ts)
  /\ TupleLeq(r.ts, end_ts)
  /\ event_types # <<>> => r.event_type \in Elements(event_types)

\* build_union_all_query run: the rows of each attached shard that pass the
\* WHERE clause.  Rows of different shards differ, so the UNION ALL is the
\* union of the sets.
UnionAll(sh, db_paths, aliases, start_ts, end_ts, event_types) ==
  UNION {{r \in sh[db_paths[a + 1]] : Where(r, start_ts, end_ts, event_types)}
         : a \in Elements(aliases)}

\* ORDER BY ts ASC; rows of one ts come in an order SQLite picks.
RECURSIVE OrderByTs(_)
OrderByTs(rows) ==
  IF rows = {} THEN <<>>
  ELSE LET r == CHOOSE r \in rows : \A q \in rows : TupleLeq(r.ts, q.ts)
       IN  <<r>> \o OrderByTs(rows \ {r})

_event_row(row) ==
  [ts |-> row.ts, event_type |-> row.event_type, badge_id |-> row.badge_id,
   status |-> row.status, raw_message |-> row.raw_message]

EventRows(rows) == [i \in DOMAIN rows |-> _event_row(rows[i])]

\* query_events_range from the attach on.
Attached(found, att, start_ts, end_ts, event_types) ==
  IF att.raised
  THEN [status |-> "error", events |-> <<>>, shards |-> found.shards,
        attached |-> Len(att.aliases)]
  ELSE [status |-> "ok",
        events |-> EventRows(OrderByTs(UnionAll(found.shards, found.paths,
                                                att.aliases, start_ts, end_ts,
                                                event_types))),
        shards |-> found.shards, attached |-> Len(att.aliases)]

Found(found, start_ts, end_ts, event_types) ==
  IF found.paths = <<>>
  THEN [status |-> "ok", events |-> <<>>, shards |-> found.shards,
        attached |-> 0]
  ELSE Attached(found, attach_databases(found.paths), start_ts, end_ts,
                event_types)

\* query_events_range(start_ts, end_ts, event_types) on the shards sh at
\* the day now: what it returns or that it raises, and the shards after.
query_events_range(sh, now, start_ts, end_ts, event_types) ==
  Found(db_paths_in_range(sh, now, DateOf(start_ts), DateOf(end_ts)),
        start_ts, end_ts, event_types)

\* A caller of query_events_range.
QueryCall(start_ts, end_ts, event_types) ==
  /\ pc = "idle" /\ ~job.active
  /\ LET res == query_events_range(shards, today, start_ts, end_ts, event_types)
     IN  /\ shards' = res.shards
         /\ qres' = [api |-> FALSE, status |-> res.status,
                     events |-> res.events, attached |-> res.attached,
                     start_ts |-> start_ts, end_ts |-> end_ts,
                     event_types |-> event_types]
  /\ UNCHANGED <<fs, pc, call, job, repeat, today, threads, others>>

(***************************************************************************)
(* GET /api/metrics: handle_unified_metrics_api.  A request is the values  *)
(* of its query parameters: dates as <<year, month, day>>, the others as   *)
(* strings of characters, <<>> where the parameter is absent (parse_qs     *)
(* drops blank values).                                                    *)
(***************************************************************************)
\* A date parameter that is absent: query.get's default takes its place.
NoDate == <<0, 0, 0>>

\* datetime.strptime(value, "%Y-%m-%d") succeeds.
ValidDate(d) ==
  /\ d[1] \in 1..9999
  /\ d[2] \in 1..12
  /\ d[3] \in 1..DaysInMonth(d[1], d[2])

_parse_date(value, default_value) ==
  IF ValidDate(value) THEN value ELSE default_value

\* int(value) for the values sent: digits, with a sign or not.
_parse_int(value, default_value, minimum, maximum) ==
  IF value # <<>> /\ AllDigits(value)
  THEN Max({minimum, Min({maximum, ToInt(value)})})
  ELSE IF Len(value) > 1 /\ value[1] = "-" /\ AllDigits(Tail(value))
  THEN Max({minimum, Min({maximum, 0 - ToInt(Tail(value))})})
  ELSE default_value

\* query.get(name, [default])[0]
Param(value, default_text) == IF value = <<>> THEN default_text ELSE value

\* clean_events: the events without raw_message.
CleanEvents(events) ==
  [i \in DOMAIN events |->
     [ts |-> events[i].ts, event_type |-> events[i].event_type,
      badge_id |-> events[i].badge_id, status |-> events[i].status]]

\* item.get(key)
Get(item, key) == IF key \in DOMAIN item THEN item[key] ELSE None

\* A value as csv.writer writes it: None as the empty string.  The fields
\* of a row are kept apart, as the quoting of the writer keeps them.
CsvField(v) == IF v = None THEN <<>> ELSE v

CsvHeader ==
  << <<"t","s">>,
     <<"e","v","e","n","t","_","t","y","p","e">>,
     <<"b","a","d","g","e","_","i","d">>,
     <<"s","t","a","t","u","s">>,
     <<"r","a","w","_","m","e","s","s","a","g","e">> >>

month_events_to_csv(events) ==
  <<CsvHeader>> \o
  [i \in DOMAIN events |->
     << FormatTs(events[i].ts),
        CsvField(Get(events[i], "event_type")),
        CsvField(Get(events[i], "badge_id")),
        CsvField(Get(events[i], "status")),
        CsvField(Get(events[i], "raw_message")) >>]

\* math.ceil(total / page_size)
Ceil(total, page_size) == (total + page_size - 1) \div page_size

TotalPages(total, page_size) ==
  IF total # 0 THEN Max({1, Ceil(total, page_size)}) ELSE 1

\* s[start_idx:end_idx] for indexes that are not negative.
Slice(s, start_idx, end_idx) ==
  SubSeq(s, Min({start_idx, Len(s)}) + 1, Min({end_idx, Len(s)}))

\* The page of the events the JSON response carries.
Paginate(clean_events, page, page_size) ==
  LET total == Len(clean_events)
      total_pages == TotalPages(total, page_size)
      shown == Min({page, total_pages})
  IN  [page |-> shown, page_size |-> page_size, total_events |-> total,
       total_pages |-> total_pages,
       events |-> Slice(clean_events, (shown - 1) * page_size,
                        (shown - 1) * page_size + page_size)]

\* A handler that answers no range with 400.
NeverTooLong(start_date, end_date) == FALSE

\* A range the handler answers with 400.
TooLong(start_date, end_date) ==
  Ordinal(end_date) - Ordinal(start_date) > 365

\* What the handler writes: the 400 of a range that is too long, the 500
\* of a query that raised, the CSV download or the page.
Response(request, start_date, end_date, http, kind, attached, page, csv) ==
  [api |-> TRUE,
   status |-> IF http = 400 THEN "rejected"
              ELSE IF http = 500 THEN "error" ELSE "ok",
   http |-> http, kind |-> kind, request |-> request,
   start_ts |-> start_date \o <<0, 0, 0>>,
   end_ts |-> end_date \o <<23, 59, 59>>,
   event_types |-> <<>>, attached |-> attached,
   page |-> page.page, page_size |-> page.page_size,
   total_events |-> page.total_events, total_pages |-> page.total_pages,
   events |-> page.events, csv |-> csv]

NoPage ==
  [page |-> 0, page_size |-> 0, total_events |-> 0, total_pages |-> 0,
   events |-> <<>>]

\* The handler from the dates it settled on.
Respond(request, start_date, end_date) ==
  IF TooLong(start_date, end_date)
  THEN /\ qres' = Response(request, start_date, end_date, 400, "json", 0,
                           NoPage, <<>>)
       /\ shards' = shards
  ELSE LET page == _parse_int(Param(request.page, <<"1">>), 1, 1, 10000)
           page_size == _parse_int(Param(request.page_size,
                                         <<"5","0","0","0">>),
                                   5000, 100, 10000)
           res == query_events_range(shards, today,
                                     start_date \o <<0, 0, 0>>,
                                     end_date \o <<23, 59, 59>>, <<>>)
           clean_events == CleanEvents(res.events)
           fmt == Lower(Param(request.format, <<"j","s","o","n">>))
       IN  /\ shards' = res.shards
           /\ qres' =
                IF res.status # "ok"
                THEN Response(request, start_date, end_date, 500, "json",
                              res.attached, NoPage, <<>>)
                ELSE IF fmt = <<"c","s","v">>
                THEN Response(request, start_date, end_date, 200, "csv",
                              res.attached, NoPage,
                              month_events_to_csv(clean_events))
                ELSE Response(request, start_date, end_date, 200, "json",
                              res.attached,
                              Paginate(clean_events, page, page_size), <<>>)

Swapped(request, start_date, end_date) ==
  IF TupleLess(end_date, start_date)
  THEN Respond(request, end_date, start_date)
  ELSE Respond(request, start_date, end_date)

handle_unified_metrics_api(start, end, page, page_size, format) ==
  /\ pc = "idle" /\ ~job.active
  /\ Swapped([start |-> start, end |-> end, page |-> page,
              page_size |-> page_size, format |-> format],
             _parse_date(start, <<today[1], 1, 1>>),
             _parse_date(end, today))
  /\ UNCHANGED <<fs, pc, call, job, repeat, today, threads, others>>

(***************************************************************************)
(* The service over the months: on the second day of each month a record   *)
(* is logged, the first record of a day cleaning up the old logs into the  *)
(* shards, and the store is queried.                                       *)
(***************************************************************************)
\* The day's record, once.
EmitToday ==
  /\ ActionLogOn(today) \in DOMAIN fs => fs[ActionLogOn(today)] = <<>>
  /\ emit(LineOn(today))

\* A month goes by, the door having been used in it.
DayPasses ==
  /\ pc = "idle" /\ ~job.active
  /\ MonthIndex(today) < MaxMonths
  /\ ActionLogOn(today) \in DOMAIN fs /\ fs[ActionLogOn(today)] # <<>>
  /\ today' = DayAt(MonthIndex(today) + 1)
  /\ qres' = NoResult
  /\ UNCHANGED <<fs, shards, pc, call, job, repeat, threads, others>>

\* The bounds callers pass to query_events_range.
QueryTimes ==
  {FirstDay \o <<12, 0, 0>>,
   DayAt(3) \o <<12, 0, 0>>,
   DayAt(MaxMonths) \o <<23, 59, 59>>}

QueryTypes == {<<>>, <<<<"s","c","a","n">>>>}

\* The start and end parameters of the requests.
RequestDates == {NoDate, <<FirstDay[1] - 1, 10, 1>>, DayAt(3)}

InitFed ==
  /\ today = FirstDay
  /\ fs = WriteFile(WriteFile(<<>>, ActionLogOn(FirstDay), <<>>),
                    MainLogOn(FirstDay), <<>>)
  /\ shards = <<>>
  /\ pc = "idle"
  /\ call = NoCall
  /\ job = NoJob
  /\ repeat = NoPath
  /\ qres = NoResult
  /\ threads = AllIdle
  /\ Apart

NextFed ==
  \/ EmitToday
  \/ DayPasses
  \/ \E start_ts \in QueryTimes, end_ts \in QueryTimes,
        event_types \in QueryTypes :
       QueryCall(start_ts, end_ts, event_types)
  \/ \E start \in RequestDates, end \in RequestDates,
        format \in {<<>>, <<"c","s","v">>} :
       handle_unified_metrics_api(start, end, <<>>, <<>>, format)

SpecFed == InitFed /\ [][NextFed]_vars

(***************************************************************************)
(* Properties of the range query (specification SpecFed).                  *)
(***************************************************************************)
\* C8: query_events_range(A, B, event_types) returns exactly the stored
\* events with A <= ts <= B, of the given types when there is a filter,
\* each stored row once, in non-decreasing order of ts, and raises no
\* error.
QueryReturnsRange ==
  (qres.status # "none" /\ ~qres.api) =>
    /\ qres.status = "ok"
    /\ LET matching ==
             {r \in UNION {shards[k] : k \in DOMAIN shards} :
                /\ TupleLeq(qres.start_ts, r.ts)
                /\ TupleLeq(r.ts, qres.end_ts)
                /\ \/ qres.event_types = <<>>
                   \/ \E i \in DOMAIN qres.event_types :
                        qres.event_types[i] = r.event_type}
       IN  /\ Len(qres.events) = Cardinality(matching)
           /\ \A r \in matching :
                \E i \in DOMAIN qres.events : qres.events[i] = _event_row(r)
           /\ \A i \in DOMAIN qres.events :
                \E r \in matching : qres.events[i] = _event_row(r)
           /\ \A i \in DOMAIN qres.events, j \in DOMAIN qres.events :
                i < j => TupleLeq(qres.events[i].ts, qres.events[j].ts)

\* C9: for every range the API accepts, query_events_range attaches every
\* existing shard of the range and returns without error.
AcceptedRangeAnswered ==
  (qres.status # "none" /\ qres.api /\ qres.status # "rejected") =>
    /\ qres.status = "ok"
    /\ qres.attached =
         Cardinality({k \in DOMAIN shards :
                        /\ TupleLeq(<<qres.start_ts[1], qres.start_ts[2]>>, k)
                        /\ TupleLeq(k, <<qres.end_ts[1], qres.end_ts[2]>>)})

\* C10: for a fixed store, every event query_events_range returns for a
\* range is also returned for each range that contains it.
RangeMonotone ==
  (qres.status = "ok" /\ ~qres.api) =>
    \A a \in QueryTimes, b \in QueryTimes :
      (TupleLeq(a, qres.start_ts) /\ TupleLeq(qres.end_ts, b)) =>
        /\ query_events_range(shards, today, a, b, qres.event_types).status = "ok"
        /\ \A i \in DOMAIN qres.events :
             \E j \in DOMAIN query_events_range(shards, today, a, b,
                                                qres.event_types).events :
               query_events_range(shards, today, a, b,
                                  qres.event_types).events[j] = qres.events[i]


(***************************************************************************)
(* The requests of GET /api/metrics on a store of a few months: a log of   *)
(* each of the first months has been ingested.                             *)
(***************************************************************************)
\* The most months the store holds.
MaxShards == 3

\* The store after the logs of the first n months, of k records each, were
\* ingested.
RECURSIVE StoreOf(_, _)
StoreOf(n, k) ==
  IF n = 0 THEN <<>>
  ELSE Ingested(StoreOf(n - 1, k), ActionLogOn(DayAt(n)),
                [i \in 1..k |-> LineOn(DayAt(n))])

\* The start and end parameters sent: none, dates, and 30 February.
ApiDates == RequestDates \cup {<<FirstDay[1], 2, 30>>}

Pages == {<<>>, <<"2">>, <<"a">>}

PageSizes == {<<>>, <<"1">>, <<"1","5","0">>, <<"2","0","0","0","0">>}

Formats == {<<>>, <<"C","S","V">>, <<"x","m","l">>}

InitApi ==
  /\ today \in {DayAt(MaxShards + 1), <<FirstDay[1], 10, 2>>}
  /\ \E n \in 0..MaxShards, k \in 1..MaxLines : shards = StoreOf(n, k)
  /\ fs = <<>>
  /\ pc = "idle"
  /\ call = NoCall
  /\ job = NoJob
  /\ repeat = NoPath
  /\ qres = NoResult
  /\ threads = AllIdle
  /\ Apart

\* The response has been written and the connection is closed.
Answered ==
  /\ qres # NoResult
  /\ qres' = NoResult
  /\ UNCHANGED <<fs, shards, pc, call, job, repeat, today, threads, others>>

\* One request is served after the other.
NextApi ==
  \/ /\ qres = NoResult
     /\ \E start \in ApiDates, end \in ApiDates, page \in Pages,
           page_size \in PageSizes, format \in Formats :
          handle_unified_metrics_api(start, end, page, page_size, format)
  \/ Answered

SpecApi == InitApi /\ [][NextApi]_vars

(***************************************************************************)
(* Properties of GET /api/metrics (specification SpecApi).                 *)
(***************************************************************************)
\* The days from the start to the end of the range a response is about.
SpanDays(res) == Ordinal(DateOf(res.end_ts)) - Ordinal(DateOf(res.start_ts))

\* C11: every request whose range spans more than 365 days, 366 days in
\* particular, is answered with 400 before query_events_range is called:
\* no shard is attached and the shards are as they were.
LongRangeRejected ==
  [][/\ (qres'.status # "none" /\ qres'.api /\ SpanDays(qres') > 365)
          => (qres'.status = "rejected" /\ qres'.http = 400
              /\ qres'.attached = 0)
     /\ qres'.status = "rejected" => shards' = shards]_vars

\* A request of 366 days is rejected in a month that has no shard yet.
LongRangeRejectedSeen ==
  /\ qres.status = "rejected"
  /\ SpanDays(qres) = 366
  /\ ~ShardExists(shards, <<today[1], today[2]>>)

\* A start or end value that is sent and is not a date.
Malformed(value) == value # NoDate /\ ~ValidDate(value)

\* C12: a request whose start or end is not a valid YYYY-MM-DD date is
\* rejected with an error, and no shard is attached for it.
MalformedDateRejected ==
  (/\ qres.status # "none" /\ qres.api
   /\ Malformed(qres.request.start) \/ Malformed(qres.request.end))
    => (qres.http = 400 /\ qres.attached = 0)

(***************************************************************************)
(* Properties of what a query does to the store (specification SpecFed).   *)
(***************************************************************************)
\* The month lies in the range a result is about.
InRange(res, month_key) ==
  /\ TupleLeq(<<res.start_ts[1], res.start_ts[2]>>, month_key)
  /\ TupleLeq(month_key, <<res.end_ts[1], res.end_ts[2]>>)

\* C13: a range query creates no shard file but an empty one for the
\* current calendar month, when that month lies in the range and has no
\* shard; every other missing shard stays absent and every existing shard
\* keeps its rows.
QueryCreatesOnlyCurrentShard ==
  [][qres'.status \in {"ok", "error"} =>
       /\ \A k \in DOMAIN shards : k \in DOMAIN shards' /\ shards'[k] = shards[k]
       /\ \A k \in DOMAIN shards' \ DOMAIN shards :
            /\ k = <<today[1], today[2]>>
            /\ InRange(qres', k)
            /\ shards'[k] = {}
       /\ InRange(qres', <<today[1], today[2]>>) =>
            <<today[1], today[2]>> \in DOMAIN shards']_vars

\* A query has created the empty shard of the current month and left the
\* later months of its range without one, next to a shard that has rows.
QueryCreatesOnlyCurrentShardSeen ==
  /\ qres.status = "ok"
  /\ <<today[1], today[2]>> \in DOMAIN shards
  /\ shards[<<today[1], today[2]>>] = {}
  /\ \E k \in DOMAIN shards : shards[k] # {}
  /\ \E m \in 1..12 :
       /\ InRange(qres, <<today[1], m>>)
       /\ <<today[1], m>> \notin DOMAIN shards

(***************************************************************************)
(* Properties of the pages and of the CSV download (specifications SpecFed *)
(* and SpecApi).                                                           *)
(***************************************************************************)
\* The stored rows whose ts lies in the range a response is about.
RowsInRange(res) ==
  {r \in UNION {shards[k] : k \in DOMAIN shards} :
     TupleLeq(res.start_ts, r.ts) /\ TupleLeq(r.ts, res.end_ts)}

\* A stored row as an event of the JSON response.
CleanRow(r) ==
  [ts |-> r.ts, event_type |-> r.event_type, badge_id |-> r.badge_id,
   status |-> r.status]

\* The events of pages 1..n of a fixed store, range and page size, one
\* page after the other.
RECURSIVE PagesUpTo(_, _, _)
PagesUpTo(clean_events, n, page_size) ==
  IF n = 0 THEN <<>>
  ELSE PagesUpTo(clean_events, n - 1, page_size)
       \o Paginate(clean_events, n, page_size).events

\* The events are those of the rows, each row once, in time order.
ExactlyInOrder(events, rows) ==
  /\ Len(events) = Cardinality(rows)
  /\ \A r \in rows :
       Cardinality({i \in DOMAIN events : events[i] = CleanRow(r)})
         = Cardinality({q \in rows : CleanRow(q) = CleanRow(r)})
  /\ \A i \in DOMAIN events, j \in DOMAIN events :
       i < j => TupleLeq(events[i].ts, events[j].ts)

\* The request asks for the CSV download.
WantsCsv(request) ==
  Lower(Param(request.format, <<"j","s","o","n">>)) = <<"c","s","v">>

\* C14: for a fixed store, range and page size, the JSON response reports
\* total_events = the number of events in the range and total_pages =
\* max(1, ceil(total_events / page_size)); each page holds at most
\* page_size events, and the events of pages 1..total_pages, one page after
\* the other, are exactly the full time-ordered result.
PagesCoverResult ==
  (/\ qres.status # "none" /\ qres.api /\ qres.status # "rejected"
   /\ ~WantsCsv(qres.request)) =>
    /\ qres.http = 200
    /\ qres.total_events = Cardinality(RowsInRange(qres))
    /\ qres.total_pages = Max({1, Ceil(qres.total_events, qres.page_size)})
    /\ Len(qres.events) <= qres.page_size
    /\ LET all == CleanEvents(
                    query_events_range(shards, today, qres.start_ts,
                                       qres.end_ts, <<>>).events)
       IN  /\ \A p \in 1..qres.total_pages :
                Len(Paginate(all, p, qres.page_size).events) <= qres.page_size
           /\ ExactlyInOrder(PagesUpTo(all, qres.total_pages, qres.page_size),
                             RowsInRange(qres))

\* C15: a request with page_size = n, n an integer >= 1, is answered with
\* page_size = n and with at most n events.
PageSizeHonoured ==
  (/\ qres.status = "ok" /\ qres.api /\ qres.kind = "json"
   /\ qres.request.page_size # <<>> /\ AllDigits(qres.request.page_size)
   /\ ToInt(qres.request.page_size) >= 1) =>
    /\ qres.page_size = ToInt(qres.request.page_size)
    /\ Len(qres.events) <= ToInt(qres.request.page_size)

\* The first four fields of the CSV row of a stored row.
CsvRowOf(r) ==
  <<FormatTs(r.ts), r.event_type,
    IF r.badge_id = None THEN <<>> ELSE r.badge_id, r.status>>

\* C16: with format=csv the handler returns the header row
\* ts,event_type,badge_id,status,raw_message followed by one row per event
\* of the full requested range, in time order, whatever page and page_size
\* are.
CsvCoversRange ==
  (/\ qres.status # "none" /\ qres.api /\ qres.status # "rejected"
   /\ WantsCsv(qres.request)) =>
    /\ qres.http = 200 /\ qres.kind = "csv"
    /\ Len(qres.csv) = 1 + Cardinality(RowsInRange(qres))
    /\ qres.csv[1] = CsvHeader
    /\ \A i \in 2..Len(qres.csv) : Len(qres.csv[i]) = Len(CsvHeader)
    /\ \A r \in RowsInRange(qres) :
         Cardinality({i \in 2..Len(qres.csv) :
                        SubSeq(qres.csv[i], 1, 4) = CsvRowOf(r)})
           = Cardinality({q \in RowsInRange(qres) : CsvRowOf(q) = CsvRowOf(r)})
    /\ \A i \in 2..Len(qres.csv), j \in 2..Len(qres.csv) :
         i < j => TupleLeq(ReadTs(qres.csv[i][1]), ReadTs(qres.csv[j][1]))

(***************************************************************************)
(* The store under all its callers: the ingestions and reloads of Spec,    *)
(* with ensure_month_db and query_events_range called in between.          *)
(***************************************************************************)
\* A caller of ensure_month_db.
EnsureMonthDb(month_key) ==
  /\ pc = "idle" /\ ~job.active
  /\ shards' = ensure_month_db(shards, month_key)
  /\ Quiet
  /\ UNCHANGED <<fs, pc, call, job, repeat>>

NextStore ==
  \/ Next
  \/ \E l \in {scanJan, openFeb} :
       EnsureMonthDb(_month_key_for_datetime(l.ts))
  \/ QueryCall(lockJan.ts, openFeb.ts, <<>>)

SpecStore == Init /\ [][NextStore]_vars

\* C17: across the calls of ensure_month_db, ingest_action_log_file,
\* reload_action_logs and query_events_range no shard file is deleted and
\* no stored row is modified or removed: each shard keeps every row it has.
StoreOnlyGrows ==
  [][\A k \in DOMAIN shards :
       k \in DOMAIN shards' /\ shards[k] \subseteq shards'[k]]_vars

\* An ingestion has returned after adding rows to a shard that held rows.
StoreOnlyGrowsSeen ==
  /\ pc = "returned"
  /\ \E k \in DOMAIN call.shards0 :
       /\ call.shards0[k] # {}
       /\ call.shards0[k] # shards[k]

(***************************************************************************)
(* Two log files ingested in either order: ingest_action_log_file with     *)
(* delete_file=False on files whose lines are drawn from the lines the     *)
(* logger writes.                                                          *)
(***************************************************************************)
\* The contents of a log file.
Contents == UNION {[1..n -> LoggedLines] : n \in 0..MaxLines}

\* The first file, and the files the second one may be: a log of another
\* day, and a file of the first one's name kept in another directory.
FileF == ActionLog

FilesG == {ActionLogOn(DateOf(lockJan.ts)), Elsewhere(ActionLog)}

InitOrder ==
  /\ \E path \in FilesG, f \in Contents, g \in Contents :
       fs = WriteFile(WriteFile(<<>>, FileF, f), path, g)
  /\ shards = <<>>
  /\ today = <<2026, 1, 31>>
  /\ pc = "idle"
  /\ call = NoCall
  /\ job = NoJob
  /\ repeat = NoPath
  /\ qres = NoResult
  /\ threads = AllIdle
  /\ Apart

\* ingest_action_log_file(path, delete_file=False), from call to return.
IngestWhole(path) ==
  /\ shards' = Ingested(shards, path, fs[path])
  /\ UNCHANGED <<fs, pc, call, job, repeat, qres, today, threads, others>>

NextOrder == \E path \in DOMAIN fs : IngestWhole(path)

SpecOrder == InitOrder /\ [][NextOrder]_vars

\* The events a store holds.
StoredEvents(sh) == {_event_row(r) : r \in UNION {sh[k] : k \in DOMAIN sh}}

\* The store after f and then g were ingested into sh.
Both(sh, f, g) == Ingested(Ingested(sh, f, fs[f]), g, fs[g])

\* C18: for any two log files F and G, ingesting F then G leaves the
\* shards holding the same set of events as ingesting G then F, and
\* ingesting either file again afterwards adds no row.
IngestCommutes ==
  \A f \in DOMAIN fs, g \in DOMAIN fs :
    f # g =>
      /\ StoredEvents(Both(shards, f, g)) = StoredEvents(Both(shards, g, f))
      /\ Ingested(Both(shards, f, g), f, fs[f]) = Both(shards, f, g)
      /\ Ingested(Both(shards, f, g), g, fs[g]) = Both(shards, f, g)

(***************************************************************************)
(* The threads of the program around the store.  The HTTP server thread    *)
(* runs reload_action_logs (POST /api/metrics/reload), the RFID thread     *)
(* logs the day's first record, whose handler rolls over and runs          *)
(* cleanup_old_logs, and the badge refresh thread runs cleanup_old_logs    *)
(* from update_last_badge_download.  No lock is taken around an ingestion: *)
(* the steps of the threads interleave.                                    *)
(***************************************************************************)
\* An action log old enough to be cleaned up on 2026-01-31, and the main
\* log of its day.
OldLog == ActionLogOn(DateOf(lockJan.ts))

OldMain == MainLogOn(DateOf(lockJan.ts))

InitThreads ==
  /\ today = <<2026, 1, 31>>
  /\ \E n \in 1..MaxLines : \E content \in [1..n -> {lockJan, comment}] :
       fs = WriteFile(WriteFile(<<>>, OldLog, content), OldMain, <<>>)
  /\ shards = <<>>
  /\ pc = "idle"
  /\ call = NoCall
  /\ job = NoJob
  /\ repeat = NoPath
  /\ qres = NoResult
  /\ threads = AllIdle
  /\ Apart

\* The variables only the one caller of Spec uses.
OneCaller == UNCHANGED <<pc, call, job, repeat, qres, today, others>>

\* The thread t goes on as next.
Goes(t, next) == threads' = [threads EXCEPT ![t] = next]

\* handle_metrics_reload_post, allowed by the rate limit: the loop of
\* reload_action_logs over os.listdir(log_dir).
ReloadPost(t) ==
  /\ t = "server" /\ threads[t].at = "idle"
  /\ \E todo \in Orderings({p \in DOMAIN fs : IsActionLogName(Spelling(p))}) :
       Goes(t, [Idle EXCEPT !.at = "loop", !.kind = "reload", !.todo = todo])
  /\ UNCHANGED <<fs, shards>>
  /\ OneCaller

\* DailyNamedFileHandler.emit on the first record of the day: the day's
\* file is opened and the loop of cleanup_old_logs starts.
Rollover(t) ==
  /\ t = "rfid" /\ threads[t].at = "idle"
  /\ ~Exists(ActionLogOn(today))
  /\ fs' = WriteFile(fs, ActionLogOn(today), <<>>)
  /\ \E todo \in Orderings({p \in DOMAIN fs : IsOld(p, today)}) :
       Goes(t, [Idle EXCEPT !.at = "loop", !.kind = "rollover", !.todo = todo])
  /\ UNCHANGED shards
  /\ OneCaller

\* update_last_badge_download: the loop of cleanup_old_logs starts.
BadgeDownload(t) ==
  /\ t = "refresh" /\ threads[t].at = "idle"
  /\ \E todo \in Orderings({p \in DOMAIN fs : IsOld(p, today)}) :
       Goes(t, [Idle EXCEPT !.at = "loop", !.kind = "download", !.todo = todo])
  /\ UNCHANGED <<fs, shards>>
  /\ OneCaller

\* The call of ingest_action_log_file on the next name of the loop, up to
\* the grouping of the events: a missing file and a file without events
\* return 0.
ThreadIngestCall(t) ==
  /\ threads[t].at = "loop" /\ threads[t].todo # <<>>
  /\ Head(threads[t].todo).kind = "action"
  /\ LET path == Head(threads[t].todo)
         content == ReadLines(path)
         events == EventsToInsert(ParsedLines(content), content, path, 1)
     IN  Goes(t, [threads[t] EXCEPT
                    !.at = IF events = <<>> THEN "returned" ELSE "insert",
                    !.path = path,
                    !.delete_file = (threads[t].kind # "reload"),
                    !.events = events,
                    !.kept_lines = KeptLines(ParsedLines(content), content, 1),
                    !.raised = FALSE])
  /\ UNCHANGED <<fs, shards>>
  /\ OneCaller

\* The transactions of the call commit.
ThreadInsert(t) ==
  /\ threads[t].at = "insert"
  /\ shards' = IngestedEvents(shards, threads[t].events)
  /\ Goes(t, [threads[t] EXCEPT
                !.at = IF threads[t].delete_file THEN "rewrite" ELSE "returned"])
  /\ UNCHANGED fs
  /\ OneCaller

\* The transaction fails (the shard is locked, the disk is full): rollback
\* and raise.
ThreadInsertRaises(t) ==
  /\ threads[t].at = "insert"
  /\ Goes(t, [threads[t] EXCEPT !.at = "raised", !.raised = TRUE])
  /\ UNCHANGED <<fs, shards>>
  /\ OneCaller

\* delete_file: the kept lines are moved over the file.
ThreadRewrite(t) ==
  /\ threads[t].at = "rewrite"
  /\ fs' = WriteFile(fs, threads[t].path, threads[t].kept_lines)
  /\ Goes(t, [threads[t] EXCEPT !.at = "returned"])
  /\ UNCHANGED shards
  /\ OneCaller

\* The rewrite fails: mkstemp raises out of the call, a failure of the
\* write or of the move is passed over.
ThreadRewriteFails(t) ==
  /\ threads[t].at = "rewrite"
  /\ \/ Goes(t, [threads[t] EXCEPT !.at = "raised", !.raised = TRUE])
     \/ Goes(t, [threads[t] EXCEPT !.at = "returned"])
  /\ UNCHANGED <<fs, shards>>
  /\ OneCaller

\* A cleanup that removes the file whatever the ingestion did.
RemoveAlways(dir, path, raised) == RemoveFile(dir, path)

\* cleanup_old_logs after the call: os.remove(full_path) is in the try
\* block behind the ingestion, and the except passes.
AfterIngest(dir, path, raised) ==
  IF raised THEN dir ELSE RemoveFile(dir, path)

\* The call is over: cleanup_old_logs removes the file, reload_action_logs
\* counts; the loop goes on.
ThreadAfterIngest(t) ==
  /\ threads[t].at \in {"returned", "raised"}
  /\ fs' = IF threads[t].kind = "reload" THEN fs
           ELSE AfterIngest(fs, threads[t].path, threads[t].raised)
  /\ Goes(t, [threads[t] EXCEPT !.at = "loop", !.todo = Tail(threads[t].todo)])
  /\ UNCHANGED shards
  /\ OneCaller

\* cleanup_old_logs on an old log that is no action log: os.remove.
ThreadRemove(t) ==
  /\ threads[t].at = "loop" /\ threads[t].todo # <<>>
  /\ Head(threads[t].todo).kind # "action"
  /\ fs' = RemoveFile(fs, Head(threads[t].todo))
  /\ Goes(t, [threads[t] EXCEPT !.todo = Tail(threads[t].todo)])
  /\ UNCHANGED shards
  /\ OneCaller

\* The loop is over: the handler writes the record that rolled the day
\* over, the other callers return.
ThreadReturn(t) ==
  /\ threads[t].at = "loop" /\ threads[t].todo = <<>>
  /\ fs' = IF threads[t].kind = "rollover"
           THEN WriteFile(fs, ActionLogOn(today),
                          Append(ReadLines(ActionLogOn(today)), scanJan))
           ELSE fs
  /\ Goes(t, Idle)
  /\ UNCHANGED shards
  /\ OneCaller

NextThreads ==
  \E t \in Threads :
    \/ ReloadPost(t)
    \/ Rollover(t)
    \/ BadgeDownload(t)
    \/ ThreadIngestCall(t)
    \/ ThreadInsert(t)
    \/ ThreadInsertRaises(t)
    \/ ThreadRewrite(t)
    \/ ThreadRewriteFails(t)
    \/ ThreadAfterIngest(t)
    \/ ThreadRemove(t)
    \/ ThreadReturn(t)

SpecThreads == InitThreads /\ [][NextThreads]_vars

(***************************************************************************)
(* Properties of the threads (specification SpecThreads).                  *)
(***************************************************************************)
\* The thread is inside ingest_action_log_file.
InIngest(t) == threads[t].at \in {"insert", "rewrite"}

\* The shards the call of the thread writes.
ShardsOf(t) ==
  {_month_key_for_datetime(threads[t].events[i].ts) :
     i \in {j \in DOMAIN threads[t].events : HasMonth(threads[t].events[j])}}

\* C19: no two executions of ingest_action_log_file that write the same
\* monthly shard overlap in time.
IngestionsSerialized ==
  \A t1 \in Threads, t2 \in Threads :
    (t1 # t2 /\ InIngest(t1) /\ InIngest(t2)) =>
      ShardsOf(t1) \cap ShardsOf(t2) = {}

\* The thread runs cleanup_old_logs.
InCleanup(t) == threads[t].kind \in {"rollover", "download"}

\* C20: cleanup_old_logs calls ingest_action_log_file on every dated
\* action log older than the retention cutoff before it removes that file,
\* and does not remove the file when the ingestion raised.  Step by step:
\* the loop lists every old action log; it passes one only after the call
\* on it; an action log disappears only in the step of a cleanup whose
\* call on it has returned; and the step after a call that raised leaves
\* the file.
CleanupIngestsBeforeRemove ==
  [][/\ \A t \in Threads :
          (threads[t].at = "idle" /\ InCleanup(t)') =>
            \A p \in DOMAIN fs :
              (IsOld(p, today) /\ p.kind = "action") =>
                p \in Elements(threads'[t].todo)
     /\ \A t \in Threads :
          (/\ InCleanup(t) /\ threads[t].at # "idle"
           /\ threads'[t].todo # threads[t].todo
           /\ Head(threads[t].todo).kind = "action") =>
            /\ threads[t].at \in {"returned", "raised"}
            /\ threads[t].path = Head(threads[t].todo)
     /\ \A p \in DOMAIN fs :
          (p.kind = "action" /\ p \notin DOMAIN fs') =>
            \E t \in Threads :
              /\ InCleanup(t) /\ threads[t].at = "returned"
              /\ threads[t].path = p /\ ~threads[t].raised
              /\ threads'[t].at = "loop"
     /\ \A t \in Threads :
          (/\ InCleanup(t) /\ threads[t].at = "raised"
           /\ threads'[t] # threads[t]
           /\ threads[t].path \in DOMAIN fs) =>
            threads[t].path \in DOMAIN fs']_vars

\* A cleanup has gone on after an ingestion that raised, and the old
\* action log is still there.
CleanupIngestsBeforeRemoveSeen ==
  \E t \in Threads :
    /\ InCleanup(t) /\ threads[t].at = "loop" /\ threads[t].raised
    /\ threads[t].path = OldLog
    /\ Exists(OldLog)
    /\ OldLog \notin Elements(threads[t].todo)

(***************************************************************************)
(* The parser and the normalizers as pure functions: a state holds the     *)
(* argument of one call, and the step of that call adds what it returned.  *)
(***************************************************************************)
\* The lines the parser is given, each spelled from its parts: the time it
\* carries and the character between date and time, the producer, the level,
\* the event, the badge and the status (None: that part is not written),
\* and which of the badge part and the status part comes first.
ParseTimes ==
  {<<2026, 2, 9, 12, 0, 0>>, <<2026, 2, 30, 10, 0, 0>>, <<2026, 13, 45, 25, 61, 61>>}

Producers == {<<"d","o","o","r","_","a","c","t","i","o","n">>, <<"m","y","-","a","p","p">>}

Levels == {<<"I","N","F","O">>, <<"W","A","R","N","I","N","G">>, <<"I","n","f","o">>}

Events == {<<"B","a","d","g","e"," ","S","c","a","n">>, <<"D","o","o","r"," ","C","L","O","S","E","D">>, <<"L","o","g","g","e","r"," ","i","n","i","t","i","a","l","i","z","e","d">>, <<>>}

Badges == {None, <<"1","2","3","4","5">>}

Statuses == {None, <<"O","K">>, <<"D","e","n","i","e","d">>}

LineParts ==
  {p \in [ts : ParseTimes, sep : {" ", "T"}, producer : Producers,
          level : Levels, event : Events, badge_id : Badges,
          status : Statuses, first : {"badge", "status"}] :
     p.first = "status" => p.badge_id # None /\ p.status # None}

PartsMessage(p) ==
  IF p.first = "status"
  THEN p.event \o _STATUS_PART \o p.status \o _BADGE_PART \o p.badge_id
  ELSE p.event
       \o (IF p.badge_id # None THEN _BADGE_PART \o p.badge_id ELSE <<>>)
       \o (IF p.status # None THEN _STATUS_PART \o p.status ELSE <<>>)

PartsLine(p) ==
  [FormatTs(p.ts) EXCEPT ![11] = p.sep]
  \o SEP \o p.producer \o SEP \o p.level \o SEP \o PartsMessage(p) \o <<"\n">>

\* Blank lines and chatter that is no record at all.
Chatter == {<<>>, <<"\n">>, <<" ", " ", "\n">>, <<"S","o","m","e"," ","c","o","m","m","e","n","t","\n">>}

ParseInputs ==
  {[fn |-> "parse_action_log_line", line |-> PartsLine(p),
    args |-> [kind |-> "parts", parts |-> p]] : p \in LineParts}
  \cup {[fn |-> "parse_action_log_line", line |-> l,
         args |-> [kind |-> "chatter"]] : l \in Chatter}

\* The call parse_action_log_line(input.line) returns or raises.
ParseLine ==
  /\ input.fn = "parse_action_log_line"
  /\ output = NoOutput
  /\ output' = [fn |-> "parse_action_log_line",
                value |-> parse_action_log_line(input.line)]
  /\ UNCHANGED <<store, disk, input, door>>

\* What the program passes to record_action: the actions of start.py,
\* door_control.py and the badge refresh, with a badge, with none and with
\* the empty badge, and the statuses the callers give.
Actions ==
  {<<"B","a","d","g","e"," ","S","c","a","n">>, <<"M","a","n","u","a","l"," ","L","o","c","k">>, <<"M","a","n","u","a","l"," ","U","n","l","o","c","k"," ","(","1"," ","h","o","u","r",")">>,
   <<"D","o","o","r"," ","O","P","E","N","/","U","N","L","O","C","K","E","D">>, <<"D","o","o","r"," ","C","L","O","S","E","D","/","L","O","C","K","E","D">>, <<"M","a","n","u","a","l"," ","B","a","d","g","e"," ","R","e","f","r","e","s","h">>}

RecordInputs ==
  {[fn |-> "record_action", line |-> <<>>,
    args |-> [kind |-> "record_action", ts |-> ts, action |-> action,
              badge_id |-> badge_id, status |-> status]] :
     ts \in {<<2026, 2, 9, 12, 0, 0>>, <<2026, 12, 31, 23, 59, 59>>},
     action \in Actions,
     badge_id \in {None, <<>>, <<"0","4","A","1","B","2","C","3">>},
     status \in {<<"S","u","c","c","e","s","s">>, <<"G","r","a","n","t","e","d">>, <<"D","e","n","i","e","d">>, <<"F","a","i","l","u","r","e">>}}

\* record_action(action, badge_id, status) at the time ts: the action
\* logger's handler appends the formatted record, which is the line the
\* parser reads back.
RecordAction ==
  /\ input.fn = "record_action"
  /\ input' = [fn |-> "parse_action_log_line",
               line |-> ActionLine(input.args.ts, input.args.action,
                                   input.args.badge_id, input.args.status),
               args |-> input.args]
  /\ UNCHANGED <<store, disk, output, door>>

\* The descriptions normalize_event_type is given: those of the repository's
\* tests, and descriptions of other makes.
Descriptions ==
  {None, <<>>, <<" "," ">>, <<"(","1"," ","h","o","u","r",")">>, <<"!","!","!">>, <<"U","n","k","n","o","w","n">>, <<"F","o","o","-","B","a","r","!">>,
   <<"B","a","d","g","e"," ","S","c","a","n">>, <<"B","a","d","g","e",":"," ","1","2","3","4","5">>, <<"D","o","o","r"," ","C","L","O","S","E","D","/","L","O","C","K","E","D">>,
   <<"D","o","o","r"," ","O","P","E","N","/","U","N","L","O","C","K","E","D">>, <<"M","a","n","u","a","l"," ","L","o","c","k">>, <<"M","a","n","u","a","l"," ","U","n","l","o","c","k"," ","(","1"," ","h","o","u","r",")">>,
   <<"S","o","m","e"," ","O","t","h","e","r"," ","E","v","e","n","t">>, <<"M","a","n","u","a","l"," "," "," ","l","o","c","k"," ","o","f"," ","o","p","e","n"," ","d","o","o","r">>,
   <<"S","c","a","n"," ","t","h","e","n"," ","o","p","e","n">>, <<"U","n","l","o","c","k","e","d"," ","a","n","d"," ","c","l","o","s","e","d">>, <<"O","p","e","n"," ","(","s","c","a","n",")"," ","d","o","o","r">>}

NormalizeInputs ==
  {[fn |-> "normalize_event_type", line |-> d,
    args |-> [kind |-> "description"]] : d \in Descriptions}

\* The call normalize_event_type(input.line) returns.
NormalizeEventType ==
  /\ input.fn = "normalize_event_type"
  /\ output = NoOutput
  /\ output' = [fn |-> "normalize_event_type",
                value |-> normalize_event_type(input.line)]
  /\ UNCHANGED <<store, disk, input, door>>

\* The door at rest: locked, with no timer.
DoorAtRest ==
  /\ relay = "LOW"
  /\ _door_is_open = FALSE
  /\ unlock_timer = 0
  /\ timers = <<>>
  /\ calls = 0

\* The log directory out of use.
DiskAtRest ==
  /\ inodes = <<>>
  /\ dirents = <<>>
  /\ _stream = 0
  /\ ingest = [at |-> "idle"]

\* The store at rest, while a pure function is evaluated.
AtRest ==
  /\ today = <<2026, 1, 31>>
  /\ fs = <<>>
  /\ shards = <<>>
  /\ pc = "idle"
  /\ call = NoCall
  /\ job = NoJob
  /\ repeat = NoPath
  /\ qres = NoResult
  /\ threads = AllIdle

InitParse ==
  /\ AtRest
  /\ input \in ParseInputs \cup RecordInputs \cup NormalizeInputs
  /\ DoorAtRest
  /\ DiskAtRest
  /\ output = NoOutput

NextParse == RecordAction \/ ParseLine \/ NormalizeEventType

SpecParse == InitParse /\ [][NextParse]_vars

\* The line has the shape
\* '<timestamp> - <producer> - <LEVEL> - <event>[ - Badge: <id>] - Status: <status>'
\* with a timestamp that is a date and time of the calendar.
HasEventShape(a) ==
  /\ a.kind = "parts"
  /\ a.parts.sep = " "
  /\ ValidTs(a.parts.ts)
  /\ \A i \in 1..Len(a.parts.producer) : a.parts.producer[i] # "-"
  /\ \A i \in 1..Len(a.parts.level) : a.parts.level[i] \in UpperChars
  /\ a.parts.event # <<>>
  /\ a.parts.status # None
  /\ a.parts.first = "badge"

\* C21: parse_action_log_line never raises; it returns None for every line
\* that has not the shape of an event line with a timestamp of the calendar
\* (blank lines, chatter, dates that do not exist), and for every other line
\* an event with ts, event_type, badge_id, status and raw_message all set.
ParseNeverRaises ==
  output.fn = "parse_action_log_line" =>
    /\ output.value # ValueError
    /\ ~HasEventShape(input.args) => output.value = NoneEvent
    /\ HasEventShape(input.args) =>
         /\ output.value # NoneEvent
         /\ {"ts", "event_type", "badge_id", "status", "raw_message"}
              \subseteq DOMAIN output.value
         /\ output.value.ts = input.args.parts.ts
         /\ output.value.event_type # <<>>
         /\ output.value.status # <<>>
         /\ output.value.raw_message # <<>>

\* The tokens of the known actions, as the repository's tests give them.
KnownToken(action) ==
  CASE action = <<"B","a","d","g","e"," ","S","c","a","n">> -> <<"s","c","a","n">>
    [] action = <<"M","a","n","u","a","l"," ","L","o","c","k">> -> <<"m","a","n","u","a","l","_","l","o","c","k">>
    [] action = <<"M","a","n","u","a","l"," ","U","n","l","o","c","k"," ","(","1"," ","h","o","u","r",")">> -> <<"m","a","n","u","a","l","_","u","n","l","o","c","k">>
    [] action = <<"D","o","o","r"," ","O","P","E","N","/","U","N","L","O","C","K","E","D">> -> <<"o","p","e","n">>
    [] action = <<"D","o","o","r"," ","C","L","O","S","E","D","/","L","O","C","K","E","D">> -> <<"c","l","o","s","e">>
    [] OTHER -> normalize_event_type(action)

\* C22: for every line record_action writes (an event with badge and status,
\* a bare event with status, 'Manual Lock', 'Manual Unlock (1 hour)'),
\* parse_action_log_line returns an event whose event_type is the normalized
\* token of the action, whose badge_id is the badge written (None when none
\* was) and whose status is the status written, in lower case.
RecordedLineParsesBack ==
  (output.fn = "parse_action_log_line" /\ input.args.kind = "record_action") =>
    /\ output.value \notin {NoneEvent, ValueError}
    /\ output.value.event_type = normalize_event_type(input.args.action)
    /\ output.value.event_type = KnownToken(input.args.action)
    /\ output.value.badge_id =
         (IF input.args.badge_id = <<>> THEN None ELSE input.args.badge_id)
    /\ output.value.status = Lower(input.args.status)
    /\ output.value.ts = input.args.ts

\* A line written for a badge has been read back.
RecordedLineParsesBackSeen ==
  /\ output.fn = "parse_action_log_line"
  /\ input.args.kind = "record_action"
  /\ input.args.badge_id = <<"0","4","A","1","B","2","C","3">>
  /\ input.args.action = <<"M","a","n","u","a","l"," ","U","n","l","o","c","k"," ","(","1"," ","h","o","u","r",")">>
  /\ output.value.badge_id = <<"0","4","A","1","B","2","C","3">>

\* A snake-case token: small letters, digits and underscores, and not empty.
IsSnakeCase(s) ==
  /\ s # <<>>
  /\ \A i \in 1..Len(s) : s[i] \in LowerChars \cup DigitChars \cup {"_"}

\* The description in lower case, without its parenthetical text, with
\* every run of whitespace collapsed.
Cleaned(raw) ==
  ReplaceRuns(Strip(RemoveParenthetical(Lower(raw))), IsSpace, <<" ">>, FALSE)

\* The token of the first match in the order manual lock, manual unlock,
\* scan or badge, open or unlocked, close or closed or locked; None when
\* nothing matches.
FirstMatch(et) ==
  IF Contains(et, <<"m","a","n","u","a","l"," ","l","o","c","k">>) THEN <<"m","a","n","u","a","l","_","l","o","c","k">>
  ELSE IF Contains(et, <<"m","a","n","u","a","l"," ","u","n","l","o","c","k">>) THEN <<"m","a","n","u","a","l","_","u","n","l","o","c","k">>
  ELSE IF Contains(et, <<"s","c","a","n">>) \/ Contains(et, <<"b","a","d","g","e">>) THEN <<"s","c","a","n">>
  ELSE IF Contains(et, <<"o","p","e","n">>) \/ Contains(et, <<"u","n","l","o","c","k","e","d">>) THEN <<"o","p","e","n">>
  ELSE IF Contains(et, <<"c","l","o","s","e">>) \/ Contains(et, <<"c","l","o","s","e","d">>)
          \/ Contains(et, <<"l","o","c","k","e","d">>) THEN <<"c","l","o","s","e">>
  ELSE None

\* C23: normalize_event_type returns the token of the first match, in the
\* priority order, in the lowercased description without its parenthetical
\* text and with its whitespace collapsed; any other description yields a
\* snake-case token, and the result is 'unknown' only when the raw
\* description is empty or None.
NormalizedToken ==
  output.fn = "normalize_event_type" =>
    /\ output.value = <<"u","n","k","n","o","w","n">> => input.line \in {None, <<>>}
    /\ input.line \in {None, <<>>} => output.value = <<"u","n","k","n","o","w","n">>
    /\ input.line \notin {None, <<>>} =>
         IF FirstMatch(Cleaned(input.line)) # None
         THEN output.value = FirstMatch(Cleaned(input.line))
         ELSE IsSnakeCase(output.value)

(***************************************************************************)
(* Analytics: the pure functions over a list of queried events.            *)
(***************************************************************************)
MaxEvents == 4

max_window == 60

\* A value that may be None.
Nothing == [none |-> TRUE]

Some(x) == [none |-> FALSE, value |-> x]

\* The seconds from the first instant of the year 2000 to ts, so that the
\* difference of two is timedelta.total_seconds() and the number stays in
\* 32 bits for the years 1932 to 2068.
Seconds(ts) ==
  ((Ordinal(<<ts[1], ts[2], ts[3]>>) - Ordinal(<<2000, 1, 1>>)) * 24 + ts[4]) * 3600
  + ts[5] * 60 + ts[6]

\* datetime.min, which is before every time of those years.
datetime_min == -2147483647

\* _to_dt(s): strptime's datetime, or None for a text it rejects.
_to_dt(ts) == IF ValidTs(ts) THEN Some(Seconds(ts)) ELSE Nothing

\* The sort key `_to_dt(x.get("ts") or "") or datetime.min`.
SortKey(e) ==
  IF _to_dt(e.ts).none THEN datetime_min ELSE _to_dt(e.ts).value

\* seq without its i-th element.
Without(seq, i) == SubSeq(seq, 1, i - 1) \o SubSeq(seq, i + 1, Len(seq))

\* sorted(seq, key=Key): ascending and stable.
RECURSIVE Sorted(_, _)
Sorted(Key(_), seq) ==
  IF seq = <<>> THEN <<>>
  ELSE LET least == Min({Key(seq[i]) : i \in 1..Len(seq)})
           first == Min({i \in 1..Len(seq) : Key(seq[i]) = least})
       IN  <<seq[first]>> \o Sorted(Key, Without(seq, first))

\* [e for e in seq if Keep(e)]
RECURSIVE Filter(_, _)
Filter(Keep(_), seq) ==
  IF seq = <<>> THEN <<>>
  ELSE (IF Keep(Head(seq)) THEN <<Head(seq)>> ELSE <<>>)
       \o Filter(Keep, Tail(seq))

\* The descriptions the events of the model carry, and the token
\* _normalize_event_type_py gives each, computed once.
EventTypes == {<<"D","o","o","r"," ","O","P","E","N","/","U","N","L","O","C","K","E","D">>, <<"D","o","o","r"," ","C","L","O","S","E","D","/","L","O","C","K","E","D">>, <<"B","a","d","g","e"," ","S","c","a","n">>}

_normalize_event_type_py == [t \in EventTypes |-> normalize_event_type(t)]

IsOpen(e) == _normalize_event_type_py[e.event_type] = <<"o","p","e","n">>

IsClose(e) == _normalize_event_type_py[e.event_type] = <<"c","l","o","s","e">>

IsScan(e) == _normalize_event_type_py[e.event_type] = <<"s","c","a","n">>

\* `c_dt <= o_dt` is false: the close is strictly after the open.
IsAtOrAfter(c_dt, o_dt) == c_dt >= o_dt

IsAfter(c_dt, o_dt) == c_dt > o_dt

\* The loop of compute_open_durations over the sorted opens, with the
\* cursor cidx into the sorted closes (counted from 1).
RECURSIVE PairOpens(_, _, _)
PairOpens(opens_sorted, closes_sorted, cidx) ==
  IF opens_sorted = <<>> THEN <<>>
  ELSE
    LET o == Head(opens_sorted)
        o_dt == _to_dt(o.ts)
        after == {j \in cidx..Len(closes_sorted) :
                    /\ ~_to_dt(closes_sorted[j].ts).none
                    /\ IsAfter(_to_dt(closes_sorted[j].ts).value, o_dt.value)}
        j == Min(after)
    IN  IF o_dt.none THEN PairOpens(Tail(opens_sorted), closes_sorted, cidx)
        ELSE IF after = {}
          THEN PairOpens(Tail(opens_sorted), closes_sorted,
                         Len(closes_sorted) + 1)
        ELSE <<[open_ts |-> o.ts, close_ts |-> closes_sorted[j].ts,
                duration |-> _to_dt(closes_sorted[j].ts).value - o_dt.value,
                badge_id |-> IF o.badge_id = <<>> THEN None ELSE o.badge_id]>>
             \o PairOpens(Tail(opens_sorted), closes_sorted, j + 1)

compute_open_durations(events) ==
  PairOpens(Sorted(SortKey, Filter(IsOpen, events)),
            Sorted(SortKey, Filter(IsClose, events)), 1)

\* `0 <= delta <= max_window`
BelowWindow(delta, window) == 0 <= delta /\ delta < window

WithinWindow(delta, window) == 0 <= delta /\ delta <= window

\* The loop of compute_scan_to_open_latencies over the sorted scans, with
\* the cursor oidx into the sorted opens (counted from 1).
RECURSIVE PairScans(_, _, _, _)
PairScans(scans_sorted, opens_sorted, oidx, window) ==
  IF scans_sorted = <<>> THEN <<>>
  ELSE
    LET s == Head(scans_sorted)
        s_dt == _to_dt(s.ts)
        stops == {j \in oidx..Len(opens_sorted) :
                    ~(SortKey(opens_sorted[j]) < s_dt.value)}
        at == IF stops = {} THEN Len(opens_sorted) + 1 ELSE Min(stops)
        o_dt == _to_dt(opens_sorted[at].ts)
        delta == o_dt.value - s_dt.value
    IN  IF s_dt.none THEN PairScans(Tail(scans_sorted), opens_sorted, oidx, window)
        ELSE IF at > Len(opens_sorted) \/ o_dt.none
          THEN PairScans(Tail(scans_sorted), opens_sorted, at, window)
        ELSE (IF WithinWindow(delta, window)
              THEN <<[scan_ts |-> s.ts, open_ts |-> opens_sorted[at].ts,
                      delta |-> delta,
                      badge_id |-> IF s.badge_id = <<>> THEN None ELSE s.badge_id]>>
              ELSE <<>>)
             \o PairScans(Tail(scans_sorted), opens_sorted, at, window)

compute_scan_to_open_latencies(events, window) ==
  PairScans(Sorted(SortKey, Filter(IsScan, events)),
            Sorted(SortKey, Filter(IsOpen, events)), 1, window)

MaxSample == 21

RECURSIVE Sum(_)
Sum(seq) == IF seq = <<>> THEN 0 ELSE Head(seq) + Sum(Tail(seq))

Identity(x) == x

\* The quotient num / den, kept exact.
Ratio(num, den) == [num |-> num, den |-> den]

\* statistics.median of an ascending list that is not empty.
Median(vals) ==
  IF Len(vals) % 2 = 1 THEN Ratio(vals[(Len(vals) + 1) \div 2], 1)
  ELSE Ratio(vals[Len(vals) \div 2] + vals[(Len(vals) \div 2) + 1], 2)

\* An index from the floor of 0.95 * count.
FloorIndex(count) ==
  Min({count - 1, Max({0, ((95 * count) \div 100) - 1})})

\* min(count - 1, max(0, math.ceil(0.95 * count) - 1)): the double 0.95 lies
\* below 19/20 by less than 2^-54, and the ceiling of its product with
\* count is that of 95 * count / 100 for every count up to 2,000,000.
P95Index(count) ==
  Min({count - 1, Max({0, Ceil(95 * count, 100) - 1})})

compute_basic_stats(values) ==
  IF values = <<>>
  THEN [count |-> 0, avg |-> Nothing, median |-> Nothing, p95 |-> Nothing]
  ELSE LET vals == Sorted(Identity, values)
           count == Len(vals)
       IN  [count |-> count,
            avg |-> Some(Ratio(Sum(vals), count)),
            median |-> Some(Median(vals)),
            p95 |-> Some(vals[P95Index(count) + 1])]

\* The events the pairings are given: opens and closes of the first of
\* February for the dwell times, scans and opens around one minute for the
\* latencies, in every order and with repetitions.
Event(ts, event_type) == [ts |-> ts, event_type |-> event_type, badge_id |-> <<"1">>]

DwellEvents ==
  {Event(<<2026, 2, 1, t[1], t[2], 0>>, e) :
     t \in {<<10, 0>>, <<10, 5>>, <<11, 0>>, <<12, 0>>},
     e \in {<<"D","o","o","r"," ","O","P","E","N","/","U","N","L","O","C","K","E","D">>, <<"D","o","o","r"," ","C","L","O","S","E","D","/","L","O","C","K","E","D">>}}

LatencyEvents ==
  {Event(<<2026, 2, 1, 10, t[1], t[2]>>, e) :
     t \in {<<0, 0>>, <<0, 59>>, <<1, 0>>, <<1, 1>>},
     e \in {<<"B","a","d","g","e"," ","S","c","a","n">>, <<"D","o","o","r"," ","O","P","E","N","/","U","N","L","O","C","K","E","D">>}}

\* The lists of at most len elements of S.
Lists(S, len) == UNION {[1..n -> S] : n \in 0..len}

\* The samples: short ones in every order, and scrambled longer ones.
Samples ==
  UNION {[1..n -> {1, 2, 100}] : n \in 0..3}
  \cup {[i \in 1..n |-> (i * a) % m] :
          n \in 4..MaxSample, a \in {1, 3, 7}, m \in {2, 11, 101}}

AnalyticsInputs ==
  {[fn |-> "compute_open_durations", events |-> l] : l \in Lists(DwellEvents, MaxEvents)}
  \cup {[fn |-> "compute_scan_to_open_latencies", events |-> l] :
          l \in Lists(LatencyEvents, MaxEvents - 1)}
  \cup {[fn |-> "compute_basic_stats", values |-> s] : s \in Samples}

OpenDurations ==
  /\ input.fn = "compute_open_durations"
  /\ output = NoOutput
  /\ output' = [fn |-> input.fn, value |-> compute_open_durations(input.events)]
  /\ UNCHANGED <<store, disk, input, door>>

ScanToOpenLatencies ==
  /\ input.fn = "compute_scan_to_open_latencies"
  /\ output = NoOutput
  /\ output' = [fn |-> input.fn,
                value |-> compute_scan_to_open_latencies(input.events, max_window)]
  /\ UNCHANGED <<store, disk, input, door>>

BasicStats ==
  /\ input.fn = "compute_basic_stats"
  /\ output = NoOutput
  /\ output' = [fn |-> input.fn, value |-> compute_basic_stats(input.values)]
  /\ UNCHANGED <<store, disk, input, door>>

InitAnalytics ==
  /\ AtRest
  /\ input \in AnalyticsInputs
  /\ DoorAtRest
  /\ DiskAtRest
  /\ output = NoOutput

NextAnalytics == OpenDurations \/ ScanToOpenLatencies \/ BasicStats

SpecAnalytics == InitAnalytics /\ [][NextAnalytics]_vars

\* The positions of the events of one kind in the list, in chronological
\* order (the earlier position first where two carry the same time).
Chronological(events, IsKind(_)) ==
  Sorted(LAMBDA i : Seconds(events[i].ts),
         Filter(LAMBDA i : IsKind(events[i]),
                [i \in 1..Len(events) |-> i]))

\* The pairs the claim describes: each open, in chronological order, takes
\* the earliest close not yet consumed that is strictly later, if there is
\* one, and consumes it.
RECURSIVE ClaimedPairs(_, _, _)
ClaimedPairs(events, opens, consumed) ==
  IF opens = <<>> THEN <<>>
  ELSE
    LET o == events[Head(opens)]
        later == {j \in 1..Len(events) :
                    /\ IsClose(events[j])
                    /\ j \notin consumed
                    /\ Seconds(events[j].ts) > Seconds(o.ts)}
        c == CHOOSE j \in later :
               \A k \in later : Seconds(events[j].ts) <= Seconds(events[k].ts)
    IN  IF later = {} THEN ClaimedPairs(events, Tail(opens), consumed)
        ELSE <<[open_ts |-> o.ts, close_ts |-> events[c].ts,
                duration |-> Seconds(events[c].ts) - Seconds(o.ts)]>>
             \o ClaimedPairs(events, Tail(opens), consumed \cup {c})

Bare(pairs) ==
  [i \in 1..Len(pairs) |->
     [open_ts |-> pairs[i].open_ts, close_ts |-> pairs[i].close_ts,
      duration |-> pairs[i].duration]]

\* The list of the repository's test: opens at 10:00 and 11:00, closes at
\* 10:05 and 12:00.
TwoOpensTwoCloses ==
  <<Event(<<2026, 2, 1, 10, 0, 0>>, <<"D","o","o","r"," ","O","P","E","N","/","U","N","L","O","C","K","E","D">>),
    Event(<<2026, 2, 1, 11, 0, 0>>, <<"D","o","o","r"," ","O","P","E","N","/","U","N","L","O","C","K","E","D">>),
    Event(<<2026, 2, 1, 10, 5, 0>>, <<"D","o","o","r"," ","C","L","O","S","E","D","/","L","O","C","K","E","D">>),
    Event(<<2026, 2, 1, 12, 0, 0>>, <<"D","o","o","r"," ","C","L","O","S","E","D","/","L","O","C","K","E","D">>)>>

\* C24: compute_open_durations, on an event list in any order, pairs each
\* open, in chronological order, with the earliest close not yet consumed
\* that is strictly later, uses each close at most once, drops the opens
\* without a later close and returns the pairs in the order of the opens;
\* opens at 10:00:00 and 11:00:00 with closes at 10:05:00 and 12:00:00 give
\* exactly two pairs, of 300 and 3600 seconds.
OpensPairedWithNextClose ==
  output.fn = "compute_open_durations" =>
    /\ Bare(output.value)
         = ClaimedPairs(input.events, Chronological(input.events, IsOpen), {})
    /\ \A i \in 1..Len(output.value) :
         output.value[i].duration > 0
    /\ input.events = TwoOpensTwoCloses =>
         /\ Len(output.value) = 2
         /\ output.value[1].duration = 300
         /\ output.value[2].duration = 3600

\* The list of the test has been paired, and so has a list in which a close
\* at the time of an open is passed over.
OpensPairedWithNextCloseSeen ==
  /\ output.fn = "compute_open_durations"
  /\ input.events = TwoOpensTwoCloses
  /\ Len(output.value) = 2

\* The pairs the claim describes: each scan, in chronological order, with
\* the next open at or after it, when that open is no more than window
\* seconds later.
RECURSIVE ClaimedLatencies(_, _, _)
ClaimedLatencies(events, scans, window) ==
  IF scans = <<>> THEN <<>>
  ELSE
    LET s == events[Head(scans)]
        onward == {j \in 1..Len(events) :
                     /\ IsOpen(events[j])
                     /\ Seconds(events[j].ts) >= Seconds(s.ts)}
        next == CHOOSE j \in onward :
                  \A k \in onward : Seconds(events[j].ts) <= Seconds(events[k].ts)
        delta == Seconds(events[next].ts) - Seconds(s.ts)
    IN  (IF onward # {} /\ delta <= window
         THEN <<[scan_ts |-> s.ts, open_ts |-> events[next].ts, delta |-> delta]>>
         ELSE <<>>)
        \o ClaimedLatencies(events, Tail(scans), window)

BareLatencies(pairs) ==
  [i \in 1..Len(pairs) |->
     [scan_ts |-> pairs[i].scan_ts, open_ts |-> pairs[i].open_ts,
      delta |-> pairs[i].delta]]

\* A scan at 10:00:00 and an open at 10:mm:ss.
ScanThenOpen(mm, ss) ==
  <<Event(<<2026, 2, 1, 10, 0, 0>>, <<"B","a","d","g","e"," ","S","c","a","n">>),
    Event(<<2026, 2, 1, 10, mm, ss>>, <<"D","o","o","r"," ","O","P","E","N","/","U","N","L","O","C","K","E","D">>)>>

NextOpenWithinWindow ==
  BareLatencies(output.value)
    = ClaimedLatencies(input.events, Chronological(input.events, IsScan),
                       max_window)

\* C25, as stated: with max_window = 60 a scan at 10:00:00 and an open at
\* 10:01:00 give no pair, and an open at 10:00:59 gives one pair of delta 59;
\* a scan yields a pair only when the next open at or after it lies within
\* max_window seconds, and the other scans are dropped.
LatencyWindowAsStated ==
  output.fn = "compute_scan_to_open_latencies" =>
    /\ input.events = ScanThenOpen(1, 0) => output.value = <<>>
    /\ input.events = ScanThenOpen(0, 59) =>
         Len(output.value) = 1 /\ output.value[1].delta = 59
    /\ NextOpenWithinWindow

\* C25, amended: with max_window = 60 a scan at 10:00:00 and an open at
\* 10:01:00, 60 seconds later, give one pair of delta 60, an open at
\* 10:01:01 gives no pair and an open at 10:00:59 one pair of delta 59; a
\* scan yields a pair only when the next open at or after it is at most
\* max_window seconds later, and the other scans are dropped.
LatencyWindowIncludesBound ==
  output.fn = "compute_scan_to_open_latencies" =>
    /\ input.events = ScanThenOpen(1, 0) =>
         Len(output.value) = 1 /\ output.value[1].delta = 60
    /\ input.events = ScanThenOpen(1, 1) => output.value = <<>>
    /\ input.events = ScanThenOpen(0, 59) =>
         Len(output.value) = 1 /\ output.value[1].delta = 59
    /\ NextOpenWithinWindow

\* The open one minute after the scan has been paired with it.
LatencyWindowSeen ==
  /\ output.fn = "compute_scan_to_open_latencies"
  /\ input.events = ScanThenOpen(1, 0)
  /\ Len(output.value) = 1

\* C30: compute_scan_to_open_latencies pairs one to one: no open event is in
\* more than one pair, so several scans before the same open give at most
\* one pair for that open.
OpensPairedOnce ==
  output.fn = "compute_scan_to_open_latencies" =>
    \A i \in 1..Len(output.value) :
      Cardinality({k \in 1..Len(output.value) :
                     output.value[k].open_ts = output.value[i].open_ts})
        <= Cardinality({j \in 1..Len(input.events) :
                          /\ IsOpen(input.events[j])
                          /\ input.events[j].ts = output.value[i].open_ts})

\* The element of rank r (counted from 1) of the sample in ascending order.
RankElement(sample, r) ==
  CHOOSE x \in {sample[i] : i \in 1..Len(sample)} :
    /\ Cardinality({i \in 1..Len(sample) : sample[i] < x}) < r
    /\ r <= Cardinality({i \in 1..Len(sample) : sample[i] <= x})

\* C26: compute_basic_stats on a sample of n > 0 values returns count n,
\* the mean, the median, and as p95 the element of rank ceil(0.95 * n),
\* which is between 1 and n, of the ascending sample, so that p95 is an
\* element of the sample and not below the median; on the empty sample it
\* returns count 0 and None for avg, median and p95.
StatsOfSample ==
  output.fn = "compute_basic_stats" =>
    LET sample == input.values
        n == Len(sample)
        rank == (95 * n + 99) \div 100
        v == output.value
    IN  IF n = 0
        THEN v = [count |-> 0, avg |-> Nothing, median |-> Nothing,
                  p95 |-> Nothing]
        ELSE /\ v.count = n
             /\ ~v.avg.none /\ ~v.median.none /\ ~v.p95.none
             /\ v.avg.value.num * n = Sum(sample) * v.avg.value.den
             /\ 2 * v.median.value.num
                  = v.median.value.den
                    * (RankElement(sample, (n + 1) \div 2)
                       + RankElement(sample, (n \div 2) + 1))
             /\ rank \in 1..n
             /\ v.p95.value = RankElement(sample, rank)
             /\ \E i \in 1..n : sample[i] = v.p95.value
             /\ v.p95.value * v.median.value.den >= v.median.value.num

\* A sample of twenty values has a p95 below its greatest value.
StatsOfSampleSeen ==
  /\ output.fn = "compute_basic_stats"
  /\ Len(input.values) = 20
  /\ \E i \in 1..20 : input.values[i] > output.value.p95.value
  /\ output.value.p95.value * output.value.median.value.den
       > output.value.median.value.num

(***************************************************************************)
(* The door controller.  Every method holds gpio_lock from its first       *)
(* statement to its last, so a method is one step; a timer is a thread     *)
(* that waits for its interval, then calls its function, which waits for   *)
(* gpio_lock as any caller does.  What set_door_status writes to the logs  *)
(* is left to the loggers.                                                 *)
(***************************************************************************)
MaxCalls == 4

\* threading.Timer(interval, function) after start(): the thread waits on
\* the event `finished` for the interval.
Timer(function) == [function |-> function, at |-> "waiting", finished |-> FALSE]

\* Timer.cancel(): sets `finished`; a thread that waits wakes up and ends
\* without the call, a thread past the wait is not stopped.
cancel(ts, t) == [ts EXCEPT ![t].finished = TRUE]

\* Thread.is_alive(): run() has not returned.
is_alive(ts, t) == ts[t].at # "dead"

\* The interval of timer t is over and `finished` is not set: run() goes
\* on to call the function.
Expire(t) ==
  /\ t \in DOMAIN timers
  /\ timers[t].at = "waiting"
  /\ ~timers[t].finished
  /\ timers' = [timers EXCEPT ![t].at = "running"]
  /\ UNCHANGED <<store, disk, input, output>>
  /\ UNCHANGED <<relay, _door_is_open, unlock_timer, calls>>

\* The wait of the cancelled timer t returns and its thread ends.
Exit(t) ==
  /\ t \in DOMAIN timers
  /\ timers[t].at = "waiting"
  /\ timers[t].finished
  /\ timers' = [timers EXCEPT ![t].at = "dead"]
  /\ UNCHANGED <<store, disk, input, output>>
  /\ UNCHANGED <<relay, _door_is_open, unlock_timer, calls>>

\* unlock_door(duration)
UnlockDoor ==
  /\ calls > 0
  /\ calls' = calls - 1
  /\ IF ~_door_is_open
     THEN relay' = "HIGH" /\ _door_is_open' = TRUE
     ELSE UNCHANGED <<relay, _door_is_open>>
  /\ timers' = (IF unlock_timer # 0 THEN cancel(timers, unlock_timer) ELSE timers)
               \o <<Timer("lock_door")>>
  /\ unlock_timer' = Len(timers) + 1
  /\ UNCHANGED <<store, disk, input, output>>

\* The body of lock_door, run on the timers ts.
lock_door(ts) ==
  /\ timers' = IF unlock_timer # 0 THEN cancel(ts, unlock_timer) ELSE ts
  /\ unlock_timer' = 0
  /\ IF _door_is_open
     THEN relay' = "LOW" /\ _door_is_open' = FALSE
     ELSE UNCHANGED <<relay, _door_is_open>>

\* lock_door() called by a caller.
LockDoor ==
  /\ calls > 0
  /\ calls' = calls - 1
  /\ lock_door(timers)
  /\ UNCHANGED <<store, disk, input, output>>

\* lock_door() called by the timer t, whose thread then ends.
TimerLocks(t) ==
  /\ t \in DOMAIN timers
  /\ timers[t].at = "running"
  /\ timers[t].function = "lock_door"
  /\ lock_door([timers EXCEPT ![t].at = "dead", ![t].finished = TRUE])
  /\ UNCHANGED <<store, disk, input, output, calls>>

\* unlock_temporarily(duration)
UnlockTemporarily ==
  /\ calls > 0
  /\ calls' = calls - 1
  /\ relay' = "HIGH"
  /\ _door_is_open' = TRUE
  /\ timers' = Append(timers, Timer("relock"))
  /\ UNCHANGED <<store, disk, input, output, unlock_timer>>

\* relock never minds unlock_timer.
NeverInLongerUnlock(ts, ut) == FALSE

\* `self.unlock_timer and self.unlock_timer.is_alive()`
InLongerUnlock(ts, ut) == ut # 0 /\ is_alive(ts, ut)

\* relock() called by the timer t, whose thread then ends.
TimerRelocks(t) ==
  /\ t \in DOMAIN timers
  /\ timers[t].at = "running"
  /\ timers[t].function = "relock"
  /\ IF ~InLongerUnlock(timers, unlock_timer)
     THEN relay' = "LOW" /\ _door_is_open' = FALSE
     ELSE UNCHANGED <<relay, _door_is_open>>
  /\ timers' = [timers EXCEPT ![t].at = "dead", ![t].finished = TRUE]
  /\ UNCHANGED <<store, disk, input, output, unlock_timer, calls>>

\* start.py sets the relay LOW and the status closed before the controller
\* is used.
InitDoor ==
  /\ AtRest
  /\ input = NoInput
  /\ output = NoOutput
  /\ relay = "LOW"
  /\ _door_is_open = FALSE
  /\ unlock_timer = 0
  /\ timers = <<>>
  /\ calls = MaxCalls
  /\ DiskAtRest

TimerStep(t) == Expire(t) \/ Exit(t) \/ TimerLocks(t) \/ TimerRelocks(t)

NextDoor ==
  \/ UnlockDoor
  \/ LockDoor
  \/ UnlockTemporarily
  \/ \E t \in 1..MaxCalls : Expire(t)
  \/ \E t \in 1..MaxCalls : Exit(t)
  \/ \E t \in 1..MaxCalls : TimerLocks(t)
  \/ \E t \in 1..MaxCalls : TimerRelocks(t)

SpecDoor == InitDoor /\ [][NextDoor]_vars

\* Every timer thread is scheduled: a wait ends when the interval is over or
\* the timer is cancelled, and a thread that waits for gpio_lock gets it,
\* since every holder releases it.
SpecDoorLive ==
  SpecDoor /\ \A t \in 1..MaxCalls : WF_vars(TimerStep(t))

\* The step is the end of timer t's thread, after its function.
ByTimer(t) ==
  /\ t \in DOMAIN timers
  /\ timers[t].at = "running"
  /\ timers'[t].at = "dead"

Locks == _door_is_open /\ ~_door_is_open'

\* C27: when unlock_door is called while the door is unlocked and an unlock
\* timer is pending, the earlier timer is cancelled and replaced: however
\* the call and the expiry of the earlier timer interleave, a cancelled
\* timer never locks the door, which stays unlocked until the new timer
\* expires or lock_door is called.
CancelledTimerNeverLocks ==
  [][/\ \A t \in 1..MaxCalls :
          (ByTimer(t) /\ timers[t].function = "lock_door" /\ Locks)
            => ~timers[t].finished
     /\ (Locks /\ unlock_timer # 0 /\ calls' = calls) => ByTimer(unlock_timer)
    ]_vars

\* The timer t will still call its function.
Pending(t) ==
  /\ t \in DOMAIN timers
  /\ \/ timers[t].at = "running"
     \/ timers[t].at = "waiting" /\ ~timers[t].finished

Locked == ~_door_is_open /\ relay = "LOW"

\* C28: after any interleaving of unlock_door, unlock_temporarily and
\* lock_door calls and timer expiries, whenever the door is unlocked a
\* pending timer will lock it: with no further unlock call the door is
\* eventually locked, the relay LOW and the status closed, and the relock
\* of a temporary unlock does not lock the door while the period of an
\* unlock_door is active.
UnlockedDoorGetsLocked ==
  /\ [](_door_is_open => \E t \in 1..MaxCalls : Pending(t))
  /\ [](_door_is_open <=> relay = "HIGH")
  /\ [](_door_is_open => <>Locked)
  /\ [][\A t \in 1..MaxCalls :
          (/\ ByTimer(t)
           /\ timers[t].function = "relock"
           /\ unlock_timer # 0
           /\ Pending(unlock_timer))
            => UNCHANGED <<relay, _door_is_open>>]_vars

\* The relock of a temporary unlock has left the door unlocked for the
\* timer of an unlock_door, which is still to come.
UnlockedDoorGetsLockedSeen ==
  /\ _door_is_open
  /\ unlock_timer # 0
  /\ Pending(unlock_timer)
  /\ \E t \in DOMAIN timers :
       timers[t].function = "relock" /\ timers[t].at = "dead"

(***************************************************************************)
(* The action logger beside a truncating ingestion of the day's log.  The  *)
(* handler opened the file once (_open_for_date) and writes to that open   *)
(* file; the ingestion reads the file of the name, and renames a new file  *)
(* to the name.                                                            *)
(***************************************************************************)
\* The file the name path leads to.
FileAt(path) == inodes[dirents[path]]

\* The handler has opened the day's log, which holds what was logged so far.
InitRace ==
  /\ AtRest
  /\ input = NoInput
  /\ output = NoOutput
  /\ DoorAtRest
  /\ \E n \in 0..MaxLines : \E content \in [1..n -> LoggedLines] :
       inodes = <<content>>
  /\ dirents = (ActionLog :> 1)
  /\ _stream = 1
  /\ ingest = [at |-> "idle"]

\* DailyNamedFileHandler.emit on the day the file was opened for:
\* self._stream.write(msg + "\n") and the flush.
StreamWrite(l) ==
  /\ Len(inodes[_stream]) <= MaxLines
  /\ inodes' = [inodes EXCEPT ![_stream] = Append(@, l)]
  /\ UNCHANGED <<store, input, output, door, dirents, _stream, ingest>>

\* ingest_action_log_file(path) with delete_file at its default: the read
\* of the whole file and its parse.  With no event the call returns and
\* leaves the file alone.
RaceRead ==
  /\ ingest.at = "idle"
  /\ LET content == FileAt(ActionLog)
         parsed == ParsedLines(content)
         events == EventsToInsert(parsed, content, ActionLog, 1)
     IN  ingest' = [at |-> IF events = <<>> THEN "returned" ELSE "insert",
                    content |-> content,
                    events |-> events,
                    kept_lines |-> KeptLines(parsed, content, 1)]
  /\ UNCHANGED <<store, input, output, door, inodes, dirents, _stream>>

\* The loop over the months, each batch committed.
RaceInsert ==
  /\ ingest.at = "insert"
  /\ shards' = IngestedEvents(shards, ingest.events)
  /\ ingest' = [ingest EXCEPT !.at = "rewrite"]
  /\ UNCHANGED <<fs, pc, call, job, repeat, qres, today, threads>>
  /\ UNCHANGED <<input, output, door, inodes, dirents, _stream>>

\* mkstemp in the directory, writelines(kept_lines) and
\* shutil.move(tmp, path): the name leads to the new file from now on.
RaceRewrite ==
  /\ ingest.at = "rewrite"
  /\ inodes' = Append(inodes, ingest.kept_lines)
  /\ dirents' = [dirents EXCEPT ![ActionLog] = Len(inodes) + 1]
  /\ ingest' = [ingest EXCEPT !.at = "returned"]
  /\ UNCHANGED <<store, input, output, door, _stream>>

NextRace ==
  \/ \E l \in LoggedLines : StreamWrite(l)
  \/ RaceRead
  \/ RaceInsert
  \/ RaceRewrite

SpecRace == InitRace /\ [][NextRace]_vars

\* The line is a row of a shard.
StoredAsRow(l) ==
  \E k \in DOMAIN shards : \E r \in shards[k] : r.raw_message = l

\* C29: a line the logger appends to the log while a truncating ingestion
\* of that file is between its read and its rename is not lost: after the
\* ingestion it is still in the file or it is a row of a shard; and what
\* the logger writes later still reaches the file of that path.
AppendedLineSurvives ==
  ingest.at = "returned" =>
    \A i \in (Len(ingest.content) + 1)..Len(inodes[_stream]) :
      \/ \E j \in 1..Len(FileAt(ActionLog)) :
           FileAt(ActionLog)[j] = inodes[_stream][i]
      \/ StoredAsRow(inodes[_stream][i])

=============================================================================
